---- MODULE Spec2Model ----
(***************************************************************************)
(* Stroke clustering, recognition write-back and expression evaluation of  *)
(* the Spatial Math Notes application.                                     *)
(*                                                                         *)
(* Pixel coordinates are even integers, so that every width, height and    *)
(* centre (minX + width / 2) the code computes is an integer.  Ratios the  *)
(* code compares against decimal thresholds are compared after cross       *)
(* multiplication (a / b > 0.15 is 20 * a > 3 * b for b > 0).  Euclidean   *)
(* distances are compared by their squares.  Text is a sequence of         *)
(* one-character strings.                                                  *)
(***************************************************************************)
EXTENDS Integers, Sequences, FiniteSets, TLC

VARIABLES
  now,               \* wall clock (ms) at the last input event
  idCounter,         \* number of ids generateId has handed out
  strokes,           \* per-character canvas: useState strokes
  characters,        \* per-character canvas: useState characters
  expressions,       \* per-character canvas: useState expressions
  isProcessing,      \* per-character canvas: useState isProcessing
  recognitionTimer,  \* per-character canvas: recognitionTimerRef (deadline)
  inflight,          \* per-character canvas: Promise.all batches not yet settled
  modelReady,        \* recognizer module: isModelReady()
  drawn,             \* number of pointer-up events so far (bounds the run)
  clears,            \* number of clears so far (bounds the run)
  groups,            \* group canvas: useState groups
  debounceTimer,     \* group canvas: debounceTimerRef, group id -> pending timer
  pendingReady,      \* page: handleGroupReady calls awaiting recognize(group)
  globalScope,       \* math solver: the module-level variable scope
  evalLog,           \* the solve and clear calls made on the solver so far
  inStrokes,         \* clustering functions: the stroke list passed in
  outCharacters,     \* clustering functions: the characters the last call returned
  pairTested,        \* clustering functions: the pair the last call tested
  grouper,           \* CharacterGrouper: characters, currentCharacter, nextId, completionTimer
  canvasV2,          \* MathCanvasV2: useState characters, currentChar; expressionTimerRef
  pageV2,            \* V2 page: useState status, expression, result, charCount
  forced,            \* number of forceRecognize calls so far (bounds the run)
  inCharacters,      \* expression layout: the recognized characters passed in
  outLayout,         \* expression layout: what the last call returned
  recognizer,        \* recognizer module: model, modelLoadFailed, tesseractWorker, useTesseract
  outRecognition,    \* recognizer module: how the last recognizeCharacter call settled
  inBoxes,           \* bounding boxes: the boxes a, b, c passed to the merge functions
  outBoxes,          \* bounding boxes: what the last merge calls returned
  modelLoad,         \* recognizer module: the initializeModel calls and the loads started
  timeouts           \* the live setTimeout timers of the segmenting and group canvases

charVars == <<strokes, characters, expressions, isProcessing, recognitionTimer,
              inflight, modelReady>>
groupVars == <<groups, debounceTimer, pendingReady>>
solverVars == <<globalScope, evalLog>>
clusterVars == <<inStrokes, outCharacters, pairTested>>
layoutVars == <<inCharacters, outLayout>>
recognizerVars == <<recognizer, outRecognition>>
boxVars == <<inBoxes, outBoxes>>
loadVars == <<modelLoad>>
inputVars == <<now, idCounter, drawn, clears>>
grouperVars == <<grouper, canvasV2, pageV2, forced>>

vars == <<now, idCounter, drawn, clears, strokes, characters, expressions,
          isProcessing, recognitionTimer, inflight, modelReady, groups,
          debounceTimer, pendingReady, globalScope, evalLog, inStrokes,
          outCharacters, pairTested, grouper, canvasV2, pageV2, forced,
          inCharacters, outLayout, recognizer, outRecognition, inBoxes, outBoxes,
          modelLoad, timeouts>>

----------------------------------------------------------------------------
(* Bounds *)

MaxStrokes == 3
MaxClears == 1
MaxEvals == 3

----------------------------------------------------------------------------
(* Generic helpers *)

NULL == "NULL"
NoTimer == -1

Min(a, b) == IF a < b THEN a ELSE b
Max(a, b) == IF a > b THEN a ELSE b
Abs(a) == IF a < 0 THEN 0 - a ELSE a

SetMin(S) == CHOOSE m \in S : \A e \in S : m <= e
SetMax(S) == CHOOSE m \in S : \A e \in S : m >= e

Range(s) == {s[i] : i \in 1..Len(s)}

RECURSIVE SeqConcat(_)
SeqConcat(ss) == IF ss = <<>> THEN <<>> ELSE Head(ss) \o SeqConcat(Tail(ss))

\* The one element of a singleton set: Only({F(x) : x \in {e}}) is F(e) with
\* e computed once.
Only(S) == CHOOSE r \in S : TRUE

SelectSeqIdx(s, Test(_)) ==
  LET F[i \in 0..Len(s)] ==
        IF i = 0 THEN <<>>
        ELSE IF Test(i) THEN Append(F[i - 1], s[i]) ELSE F[i - 1]
  IN F[Len(s)]

----------------------------------------------------------------------------
(* Geometry (lib/geometry.ts) *)

MakeBox(minX, minY, maxX, maxY) ==
  LET width == maxX - minX
      height == maxY - minY
  IN [minX |-> minX, minY |-> minY, maxX |-> maxX, maxY |-> maxY,
      width |-> width, height |-> height,
      centerX |-> minX + width \div 2, centerY |-> minY + height \div 2]

ZeroBox == [minX |-> 0, minY |-> 0, maxX |-> 0, maxY |-> 0,
            width |-> 0, height |-> 0, centerX |-> 0, centerY |-> 0]

calculateBoundingBox(points) ==
  IF Len(points) = 0 THEN ZeroBox
  ELSE MakeBox(SetMin({points[i].x : i \in 1..Len(points)}),
               SetMin({points[i].y : i \in 1..Len(points)}),
               SetMax({points[i].x : i \in 1..Len(points)}),
               SetMax({points[i].y : i \in 1..Len(points)}))

mergeBoundingBoxes_FirstMaxX(boxes) ==
  IF Len(boxes) = 0 THEN ZeroBox
  ELSE MakeBox(SetMin({boxes[i].minX : i \in 1..Len(boxes)}),
               SetMin({boxes[i].minY : i \in 1..Len(boxes)}),
               boxes[1].maxX,
               SetMax({boxes[i].maxY : i \in 1..Len(boxes)}))

mergeBoundingBoxes(boxes) ==
  IF Len(boxes) = 0 THEN ZeroBox
  ELSE MakeBox(SetMin({boxes[i].minX : i \in 1..Len(boxes)}),
               SetMin({boxes[i].minY : i \in 1..Len(boxes)}),
               SetMax({boxes[i].maxX : i \in 1..Len(boxes)}),
               SetMax({boxes[i].maxY : i \in 1..Len(boxes)}))

BoxesOf(ss) == [i \in 1..Len(ss) |-> ss[i].boundingBox]

\* overlapX and overlapY are the numerators, minWidth and minHeight the
\* denominators of the two ratios; a zero denominator makes the ratio 0.
calculateOverlapRatio(box1, box2) ==
  [overlapX |-> Max(0, Min(box1.maxX, box2.maxX) - Max(box1.minX, box2.minX)),
   minWidth |-> Min(box1.width, box2.width),
   overlapY |-> Max(0, Min(box1.maxY, box2.maxY) - Max(box1.minY, box2.minY)),
   minHeight |-> Min(box1.height, box2.height)]

\* ratio > 0.15, where ratio = IF den > 0 THEN num / den ELSE 0
RatioAboveThreshold(num, den) == den > 0 /\ 20 * num > 3 * den

QuickSuccessionMs == 1000
MinAvgSize == 30

LastTimestamp(stroke) ==
  IF Len(stroke.points) = 0 THEN 0 ELSE stroke.points[Len(stroke.points)].timestamp
FirstTimestamp(stroke) ==
  IF Len(stroke.points) = 0 THEN 0 ELSE stroke.points[1].timestamp

shouldGroupStrokes(stroke1, stroke2) ==
  LET b1 == stroke1.boundingBox
      b2 == stroke2.boundingBox
      overlap == calculateOverlapRatio(b1, b2)
      hasOverlap == \/ RatioAboveThreshold(overlap.overlapX, overlap.minWidth)
                    \/ RatioAboveThreshold(overlap.overlapY, overlap.minHeight)
      centerDistX == Abs(b1.centerX - b2.centerX)
      centerDistY == Abs(b1.centerY - b2.centerY)
      \* twice avgSize, to stay in the integers
      avgSize2 == Max(Max(b1.width + b2.width, b1.height + b2.height), 2 * MinAvgSize)
      \* centerDist < avgSize * 1.2
      isClose == /\ 10 * centerDistX < 6 * avgSize2
                 /\ 10 * centerDistY < 6 * avgSize2
      timeDiff == Abs(FirstTimestamp(stroke2) - LastTimestamp(stroke1))
      isQuickSuccession == timeDiff < QuickSuccessionMs
  IN (hasOverlap /\ isClose) \/ (isClose /\ isQuickSuccession)

----------------------------------------------------------------------------
(* Expression text and the mathjs evaluator                                *)
(*                                                                         *)
(* math.evaluate is modelled on integers for the grammar                   *)
(*   assignment := symbol "=" assignment | sum                             *)
(*   sum        := product (("+" | "-") product)*                          *)
(*   product    := unary (("*" | "/") unary | symbol)*                     *)
(*   unary      := ("-" | "+") unary | number | symbol                     *)
(* with numbers as digit runs and symbols as a letter followed by letters  *)
(* and digits.  A text is first parsed (syntax errors win), then evaluated *)
(* against the scope; an assignment writes the scope it was given.         *)

Digits == {"0", "1", "2", "3", "4", "5", "6", "7", "8", "9"}
Letters == {"a", "b", "x", "y", "X"}

DigitValue(c) ==
  CASE c = "0" -> 0 [] c = "1" -> 1 [] c = "2" -> 2 [] c = "3" -> 3
    [] c = "4" -> 4 [] c = "5" -> 5 [] c = "6" -> 6 [] c = "7" -> 7
    [] c = "8" -> 8 [] c = "9" -> 9

DigitChar(d) ==
  CASE d = 0 -> "0" [] d = 1 -> "1" [] d = 2 -> "2" [] d = 3 -> "3"
    [] d = 4 -> "4" [] d = 5 -> "5" [] d = 6 -> "6" [] d = 7 -> "7"
    [] d = 8 -> "8" [] d = 9 -> "9"

\* String(n) for an integer n.
RECURSIVE NatToText(_)
NatToText(n) ==
  IF n < 10 THEN <<DigitChar(n)>>
  ELSE Append(NatToText(n \div 10), DigitChar(n % 10))

NumberToString(n) == IF n < 0 THEN <<"-">> \o NatToText(0 - n) ELSE NatToText(n)

\* Tokens: [kind, val, name].
NumTok(v) == [kind |-> "num", val |-> v, name |-> <<>>]
SymTok(nm) == [kind |-> "sym", val |-> 0, name |-> nm]
OpTok(c) == [kind |-> "op", val |-> 0, name |-> <<c>>]

\* Last index of the run of characters of class starting at i.
RECURSIVE RunEnd(_, _, _)
RunEnd(text, i, class) ==
  IF i < Len(text) /\ text[i + 1] \in class THEN RunEnd(text, i + 1, class) ELSE i

RECURSIVE RunValue(_, _, _)
RunValue(text, i, j) ==
  IF j < i THEN 0 ELSE 10 * RunValue(text, i, j - 1) + DigitValue(text[j])

RECURSIVE Tokenize(_, _)
Tokenize(text, i) ==
  IF i > Len(text) THEN <<>>
  ELSE IF text[i] \in Digits
  THEN LET j == RunEnd(text, i, Digits)
       IN <<NumTok(RunValue(text, i, j))>> \o Tokenize(text, j + 1)
  ELSE IF text[i] \in Letters
  THEN LET j == RunEnd(text, i, Letters \cup Digits)
       IN <<SymTok(SubSeq(text, i, j))>> \o Tokenize(text, j + 1)
  ELSE <<OpTok(text[i])>> \o Tokenize(text, i + 1)

IsOp(toks, i, ops) == i <= Len(toks) /\ toks[i].kind = "op" /\ toks[i].name[1] \in ops

SyntaxError == <<"Syntax error">>
UndefinedSymbol(nm) == <<"Undefined symbol">> \o nm
NoError == <<>>

\* Parse results: [err, val, pos, scope]; pos is the next unread token.
Fail(e, scope) == [err |-> e, val |-> 0, pos |-> 0, scope |-> scope]
Good(v, p, scope) == [err |-> NoError, val |-> v, pos |-> p, scope |-> scope]

\* In a syntax-only pass (checking = TRUE) every symbol reads as 1.
ParsePrimary(toks, i, scope, checking) ==
  IF i > Len(toks) THEN Fail(SyntaxError, scope)
  ELSE IF toks[i].kind = "num" THEN Good(toks[i].val, i + 1, scope)
  ELSE IF toks[i].kind = "sym"
  THEN IF checking THEN Good(1, i + 1, scope)
       ELSE IF toks[i].name \in DOMAIN scope
       THEN Good(scope[toks[i].name], i + 1, scope)
       ELSE Fail(UndefinedSymbol(toks[i].name), scope)
  ELSE Fail(SyntaxError, scope)

\* -r, or the error of r.
Negated(r, scope) ==
  IF r.err # NoError THEN r ELSE Good(0 - r.val, r.pos, scope)

RECURSIVE ParseUnary(_, _, _, _)
ParseUnary(toks, i, scope, checking) ==
  IF IsOp(toks, i, {"-"})
  THEN Only({Negated(r, scope) : r \in {ParseUnary(toks, i + 1, scope, checking)}})
  ELSE IF IsOp(toks, i, {"+"})
  THEN ParseUnary(toks, i + 1, scope, checking)
  ELSE ParsePrimary(toks, i, scope, checking)

\* The inputs of the model keep every division exact and non-zero.
Divide(a, b) == IF b = 0 THEN 0 ELSE a \div b

RECURSIVE ProductLoop(_, _, _, _)

\* left * right or left / right, then the rest of the product.
ProductStep(toks, left, right, times, scope, checking) ==
  IF right.err # NoError THEN right
  ELSE Only({ProductLoop(toks, product, scope, checking) :
                product \in {Good(IF times THEN left.val * right.val
                                            ELSE Divide(left.val, right.val),
                                  right.pos, scope)}})

ProductLoop(toks, left, scope, checking) ==
  IF left.err # NoError THEN left
  ELSE IF IsOp(toks, left.pos, {"*", "/"})
  THEN Only({ProductStep(toks, left, right, toks[left.pos].name[1] = "*",
                         scope, checking) :
                right \in {ParseUnary(toks, left.pos + 1, scope, checking)}})
  ELSE IF left.pos <= Len(toks) /\ toks[left.pos].kind = "sym"
  THEN \* implicit multiplication: a number followed by a symbol
       Only({ProductStep(toks, left, right, TRUE, scope, checking) :
                right \in {ParsePrimary(toks, left.pos, scope, checking)}})
  ELSE left

ParseProduct(toks, i, scope, checking) ==
  Only({ProductLoop(toks, left, scope, checking) :
          left \in {ParseUnary(toks, i, scope, checking)}})

RECURSIVE SumLoop(_, _, _, _)

\* left + right or left - right, then the rest of the sum.
SumStep(toks, left, right, plus, scope, checking) ==
  IF right.err # NoError THEN right
  ELSE Only({SumLoop(toks, sum, scope, checking) :
                sum \in {Good(IF plus THEN left.val + right.val
                                      ELSE left.val - right.val,
                              right.pos, scope)}})

SumLoop(toks, left, scope, checking) ==
  IF left.err # NoError THEN left
  ELSE IF IsOp(toks, left.pos, {"+", "-"})
  THEN Only({SumStep(toks, left, right, toks[left.pos].name[1] = "+",
                     scope, checking) :
                right \in {ParseProduct(toks, left.pos + 1, scope, checking)}})
  ELSE left

ParseSum(toks, i, scope, checking) ==
  Only({SumLoop(toks, left, scope, checking) :
          left \in {ParseProduct(toks, i, scope, checking)}})

ScopeWith(scope, nm, v) ==
  [k \in DOMAIN scope \cup {nm} |-> IF k = nm THEN v ELSE scope[k]]

\* nm = r: the value of r, stored under nm in the scope r left.
Assigned(r, nm) ==
  IF r.err # NoError THEN r
  ELSE Good(r.val, r.pos, ScopeWith(r.scope, nm, r.val))

RECURSIVE ParseAssignment(_, _, _, _)
ParseAssignment(toks, i, scope, checking) ==
  IF i <= Len(toks) /\ toks[i].kind = "sym" /\ IsOp(toks, i + 1, {"="})
  THEN Only({Assigned(r, toks[i].name) :
                r \in {ParseAssignment(toks, i + 2, scope, checking)}})
  ELSE ParseSum(toks, i, scope, checking)

\* r must have read every token.
Complete(r, toks, scope) ==
  IF r.err # NoError THEN Fail(r.err, scope)
  ELSE IF r.pos <= Len(toks) THEN Fail(SyntaxError, scope)
  ELSE r

ParseAll(toks, scope, checking) ==
  Only({Complete(r, toks, scope) : r \in {ParseAssignment(toks, 1, scope, checking)}})

\* syntax is the result of the syntax-only pass.
EvaluateParsedTokens(syntax, toks, scope) ==
  IF syntax.err # NoError THEN Fail(syntax.err, scope)
  ELSE ParseAll(toks, scope, FALSE)

EvaluateTokens(toks, scope) ==
  Only({EvaluateParsedTokens(syntax, toks, scope) :
          syntax \in {ParseAll(toks, scope, TRUE)}})

\* math.evaluate(text, scope): [err, val, scope], err # NoError when it throws.
MathEvaluate(text, scope) ==
  Only({EvaluateTokens(toks, scope) : toks \in {Tokenize(text, 1)}})

----------------------------------------------------------------------------
(* Math solver (lib/math-solver) *)

\* The characters U+00D7, U+00F7 and U+2212 of a text.
TimesSign == "U+00D7"
DivideSign == "U+00F7"
MinusSign == "U+2212"

ReplaceChars_KeepsDivide(text) ==
  [i \in 1..Len(text) |->
     CASE text[i] = TimesSign -> "*"
       [] text[i] = MinusSign -> "-"
       [] OTHER -> text[i]]

\* The steps of normalizeExpression.
ReplaceChars(text) ==
  [i \in 1..Len(text) |->
     CASE text[i] = TimesSign -> "*"
       [] text[i] = DivideSign -> "/"
       [] text[i] = MinusSign -> "-"
       [] OTHER -> text[i]]

StripWhitespace(text) == SelectSeq(text, LAMBDA c : c # " ")

\* text.replace(/(L)(R)/g, '$1*$2') for character classes L and R
RECURSIVE InsertTimes(_, _, _)
InsertTimes(text, L, R) ==
  IF Len(text) < 2 THEN text
  ELSE IF text[1] \in L /\ text[2] \in R
  THEN <<text[1], "*">> \o InsertTimes(Tail(text), L, R)
  ELSE <<text[1]>> \o InsertTimes(Tail(text), L, R)

normalizeExpression(expr) ==
  InsertTimes(InsertTimes(StripWhitespace(ReplaceChars(expr)), Digits, Letters),
              Letters, Digits)

ValueChars == Digits \cup {".", "+", "-", "*", "/", "(", ")"}

\* [type, variable, value, expression, error, scope]
Parsed(type, variable, value, expression, error, scope) ==
  [type |-> type, variable |-> variable, value |-> value,
   expression |-> expression, error |-> error, scope |-> scope]

\* The assignment branch: ev is math.evaluate of the text after "v=".
ParsedAssignment(normalized, ev, scope) ==
  IF ev.err = NoError
  THEN Parsed("assignment", <<normalized[1]>>, ev.val, normalized, NoError, ev.scope)
  ELSE Parsed("invalid", <<>>, 0, <<>>, <<"Invalid assignment value">>, scope)

IsAssignmentText(normalized) ==
  /\ Len(normalized) >= 3
  /\ normalized[1] \in Letters
  /\ normalized[2] = "="
  /\ \A i \in 3..Len(normalized) : normalized[i] \in ValueChars

ParseNormalized(normalized, scope) ==
  IF normalized = <<>>
  THEN Parsed("invalid", <<>>, 0, <<>>, <<"Empty expression">>, scope)
  ELSE IF IsAssignmentText(normalized)
  THEN Only({ParsedAssignment(normalized, ev, scope) :
                ev \in {MathEvaluate(SubSeq(normalized, 3, Len(normalized)), scope)}})
  ELSE IF normalized[Len(normalized)] = "="
  THEN Parsed("equation", <<>>, 0, SubSeq(normalized, 1, Len(normalized) - 1),
              NoError, scope)
  ELSE Parsed("expression", <<>>, 0, normalized, NoError, scope)

parseExpression(expr, scope) ==
  Only({ParseNormalized(normalized, scope) : normalized \in {normalizeExpression(expr)}})

\* [success, result, error, scope]: scope is globalScope after the call.
Evaluation(success, result, error, scope) ==
  [success |-> success, result |-> result, error |-> error, scope |-> scope]

\* The equation and expression branches: ev is math.evaluate of the text.
Evaluated(ev) ==
  IF ev.err = NoError
  THEN Evaluation(TRUE, NumberToString(ev.val), NoError, ev.scope)
  ELSE Evaluation(FALSE, <<>>, ev.err, ev.scope)

EvaluateParsed_NoStore(parsed) ==
  CASE parsed.type = "assignment" ->
         Evaluation(TRUE, NumberToString(parsed.value), NoError, parsed.scope)
    [] parsed.type \in {"equation", "expression"} ->
         Only({Evaluated(ev) : ev \in {MathEvaluate(parsed.expression, parsed.scope)}})
    [] OTHER -> Evaluation(FALSE, <<>>, parsed.error, parsed.scope)

\* The switch on parsed.type.
EvaluateParsed(parsed) ==
  CASE parsed.type = "assignment" ->
         Evaluation(TRUE, NumberToString(parsed.value), NoError,
                    ScopeWith(parsed.scope, parsed.variable, parsed.value))
    [] parsed.type \in {"equation", "expression"} ->
         Only({Evaluated(ev) : ev \in {MathEvaluate(parsed.expression, parsed.scope)}})
    [] OTHER -> Evaluation(FALSE, <<>>, parsed.error, parsed.scope)

evaluateExpression(expr, scope) ==
  Only({EvaluateParsed(parsed) : parsed \in {parseExpression(expr, scope)}})

Solved_NoPlaceholder(evalResult) ==
  [result |-> evalResult.result,
   error |-> IF evalResult.success THEN NoError ELSE evalResult.error,
   scope |-> evalResult.scope]

Solved(evalResult) ==
  IF evalResult.success /\ evalResult.result # <<>>
  THEN [result |-> evalResult.result, error |-> NoError, scope |-> evalResult.scope]
  ELSE [result |-> <<"?">>, error |-> evalResult.error, scope |-> evalResult.scope]

\* [result, error, scope]
solve(expression, scope) ==
  Only({Solved(evalResult) : evalResult \in {evaluateExpression(expression, scope)}})

clearScope_Keeps == globalScope
clearScope == <<>>

----------------------------------------------------------------------------
(* Incremental pairwise clustering (lib/stroke-grouping.ts) *)

NewCharacter(id, ss, box) ==
  [id |-> id, strokes |-> ss, boundingBox |-> box,
   recognized |-> NULL, confidence |-> 0]

OverlappingIndices_FirstStroke(existingCharacters, newStroke) ==
  {i \in 1..Len(existingCharacters) :
     shouldGroupStrokes(existingCharacters[i].strokes[1], newStroke)}

\* Indices (1-based) of the characters holding a stroke grouped with newStroke.
OverlappingIndices(existingCharacters, newStroke) ==
  {i \in 1..Len(existingCharacters) :
     \E k \in 1..Len(existingCharacters[i].strokes) :
        shouldGroupStrokes(existingCharacters[i].strokes[k], newStroke)}

addStrokeToCharacters_KeepsLabel(existingCharacters, newStroke, freshId) ==
  LET overlappingIndices == OverlappingIndices(existingCharacters, newStroke)
  IN IF overlappingIndices = {}
     THEN Append(existingCharacters,
                 NewCharacter(freshId, <<newStroke>>, newStroke.boundingBox))
     ELSE IF Cardinality(overlappingIndices) = 1
     THEN LET idx == CHOOSE i \in overlappingIndices : TRUE
              char == existingCharacters[idx]
              newStrokes == Append(char.strokes, newStroke)
          IN [existingCharacters EXCEPT ![idx] =
                [char EXCEPT !.strokes = newStrokes,
                             !.boundingBox = mergeBoundingBoxes(BoxesOf(newStrokes))]]
     ELSE LET merged == SelectSeqIdx(existingCharacters,
                                     LAMBDA i : i \in overlappingIndices)
              mergedStrokes == <<newStroke>> \o
                 SeqConcat([i \in 1..Len(merged) |-> merged[i].strokes])
              remainingCharacters == SelectSeqIdx(existingCharacters,
                                     LAMBDA i : i \notin overlappingIndices)
          IN Append(remainingCharacters,
                    NewCharacter(freshId, mergedStrokes,
                                 mergeBoundingBoxes(BoxesOf(mergedStrokes))))

addStrokeToCharacters(existingCharacters, newStroke, freshId) ==
  LET overlappingIndices == OverlappingIndices(existingCharacters, newStroke)
  IN IF overlappingIndices = {}
     THEN Append(existingCharacters,
                 NewCharacter(freshId, <<newStroke>>, newStroke.boundingBox))
     ELSE IF Cardinality(overlappingIndices) = 1
     THEN LET idx == CHOOSE i \in overlappingIndices : TRUE
              char == existingCharacters[idx]
              newStrokes == Append(char.strokes, newStroke)
          IN [existingCharacters EXCEPT ![idx] =
                [char EXCEPT !.strokes = newStrokes,
                             !.boundingBox = mergeBoundingBoxes(BoxesOf(newStrokes)),
                             !.recognized = NULL,
                             !.confidence = 0]]
     ELSE LET merged == SelectSeqIdx(existingCharacters,
                                     LAMBDA i : i \in overlappingIndices)
              mergedStrokes == <<newStroke>> \o
                 SeqConcat([i \in 1..Len(merged) |-> merged[i].strokes])
              remainingCharacters == SelectSeqIdx(existingCharacters,
                                     LAMBDA i : i \notin overlappingIndices)
          IN Append(remainingCharacters,
                    NewCharacter(freshId, mergedStrokes,
                                 mergeBoundingBoxes(BoxesOf(mergedStrokes))))

\* Union-find over the indices of the stroke list (1-based here).
RECURSIVE find(_, _)
find(parent, i) ==
  IF parent[i] # i
  THEN LET r == find(parent, parent[i])
       IN [parent |-> [r.parent EXCEPT ![i] = r.root], root |-> r.root]
  ELSE [parent |-> parent, root |-> i]

union_NoFind(parent, i, j) == IF i # j THEN [parent EXCEPT ![i] = j] ELSE parent
union(parent, i, j) ==
  LET fi == find(parent, i)
      fj == find(fi.parent, j)
  IN IF fi.root # fj.root
     THEN [fj.parent EXCEPT ![fi.root] = fj.root]
     ELSE fj.parent

\* The two nested loops over the pairs i < j.
RECURSIVE PairLoop(_, _, _, _)
PairLoop(parent, ss, i, j) ==
  IF i > Len(ss) THEN parent
  ELSE IF j > Len(ss) THEN PairLoop(parent, ss, i + 1, i + 2)
  ELSE PairLoop(IF shouldGroupStrokes(ss[i], ss[j]) THEN union(parent, i, j) ELSE parent,
                ss, i, j + 1)

\* The Map from root to strokes, in insertion order.
RECURSIVE CollectLoop(_, _, _, _)
CollectLoop(parent, ss, i, acc) ==
  IF i > Len(ss) THEN acc
  ELSE LET f == find(parent, i)
           pos == {k \in 1..Len(acc) : acc[k].root = f.root}
       IN CollectLoop(f.parent, ss, i + 1,
            IF pos = {}
            THEN Append(acc, [root |-> f.root, strokes |-> <<ss[i]>>])
            ELSE LET k == CHOOSE k \in pos : TRUE
                 IN [acc EXCEPT ![k].strokes = Append(acc[k].strokes, ss[i])])

\* The characters get the ids firstId, firstId + 1, ... from generateId.
groupStrokesIntoCharacters(ss, firstId) ==
  IF Len(ss) = 0 THEN <<>>
  ELSE LET parent == PairLoop([i \in 1..Len(ss) |-> i], ss, 1, 2)
           gs == CollectLoop(parent, ss, 1, <<>>)
       IN [k \in 1..Len(gs) |->
             NewCharacter(firstId + k - 1, gs[k].strokes,
                          mergeBoundingBoxes(BoxesOf(gs[k].strokes)))]

----------------------------------------------------------------------------
(* Lines and expressions (lib/geometry.ts, lib/expression-parser.ts) *)

\* overlapY / minHeight > 0.3
areOnSameLine(box1, box2) ==
  LET overlapY == Max(0, Min(box1.maxY, box2.maxY) - Max(box1.minY, box2.minY))
      minHeight == Min(box1.height, box2.height)
  IN IF minHeight = 0 THEN FALSE ELSE 10 * overlapY > 3 * minHeight

\* [...s].sort((a, b) => Key(a) - Key(b)): a stable sort.
SortByKey(s, Key(_)) ==
  LET rank(i) == 1 + Cardinality({j \in 1..Len(s) :
                        \/ Key(s[j]) < Key(s[i])
                        \/ Key(s[j]) = Key(s[i]) /\ j < i})
  IN [p \in 1..Len(s) |-> s[CHOOSE i \in 1..Len(s) : rank(i) = p]]

sortCharactersLeftToRight(chars) == SortByKey(chars, LAMBDA c : c.boundingBox.centerX)

RECURSIVE LinesLoop(_, _, _, _)
LinesLoop(sorted, i, lines, currentLine) ==
  IF i > Len(sorted)
  THEN IF Len(currentLine) > 0
       THEN Append(lines, sortCharactersLeftToRight(currentLine))
       ELSE lines
  ELSE LET char == sorted[i]
           lastCharInLine == currentLine[Len(currentLine)]
       IN IF \/ areOnSameLine(char.boundingBox, lastCharInLine.boundingBox)
             \/ \E k \in 1..Len(currentLine) :
                   areOnSameLine(char.boundingBox, currentLine[k].boundingBox)
          THEN LinesLoop(sorted, i + 1, lines, Append(currentLine, char))
          ELSE LinesLoop(sorted, i + 1,
                         Append(lines, sortCharactersLeftToRight(currentLine)),
                         <<char>>)

groupIntoLines_Unsorted(chars) ==
  IF Len(chars) = 0 THEN <<>>
  ELSE LinesLoop(chars, 2, <<>>, <<chars[1]>>)

groupIntoLines(chars) ==
  IF Len(chars) = 0 THEN <<>>
  ELSE LET sorted == SortByKey(chars, LAMBDA c : c.boundingBox.centerY)
       IN LinesLoop(sorted, 2, <<>>, <<sorted[1]>>)

buildExpressionString(chars) ==
  [i \in 1..Len(chars) |->
     IF chars[i].recognized \in {NULL, ""} THEN "?" ELSE chars[i].recognized]

\* expr.replace(/(\d)x(\d)/gi, '$1*$2')
RECURSIVE ReplaceTimesLetter(_)
ReplaceTimesLetter(text) ==
  IF Len(text) < 3
  THEN text
  ELSE IF text[1] \in Digits /\ text[2] \in {"x", "X"} /\ text[3] \in Digits
  THEN <<text[1], "*", text[3]>> \o ReplaceTimesLetter(SubSeq(text, 4, Len(text)))
  ELSE <<text[1]>> \o ReplaceTimesLetter(Tail(text))

parser_normalizeExpression(expr) ==
  LET signs == [i \in 1..Len(ReplaceTimesLetter(expr)) |->
                  CASE ReplaceTimesLetter(expr)[i] = DivideSign -> "/"
                    [] ReplaceTimesLetter(expr)[i] = TimesSign -> "*"
                    [] OTHER -> ReplaceTimesLetter(expr)[i]]
  IN InsertTimes(InsertTimes(InsertTimes(signs, Digits, {"("}), {")"}, Digits),
                 {")"}, {"("})

RECURSIVE TrimStart(_)
TrimStart(text) ==
  IF text # <<>> /\ Head(text) = " " THEN TrimStart(Tail(text)) ELSE text

RECURSIVE TrimEnd(_)
TrimEnd(text) ==
  IF text # <<>> /\ text[Len(text)] = " "
  THEN TrimEnd(SubSeq(text, 1, Len(text) - 1))
  ELSE text

\* exprString.split('=')[0]
BeforeEquals(text) ==
  IF \E i \in 1..Len(text) : text[i] = "="
  THEN SubSeq(text, 1, SetMin({i \in 1..Len(text) : text[i] = "="}) - 1)
  ELSE text

\* [result, error] of the evaluateExpression of the expression parser.
parser_evaluateExpression(exprString) ==
  LET toEvaluate == TrimEnd(TrimStart(BeforeEquals(exprString)))
      ev == MathEvaluate(parser_normalizeExpression(toEvaluate), <<>>)
  IN IF toEvaluate = <<>> \/ toEvaluate = <<"?">>
     THEN [result |-> NULL, error |-> <<"Empty expression">>]
     ELSE IF \E i \in 1..Len(toEvaluate) : toEvaluate[i] = "?"
     THEN [result |-> NULL, error |-> <<"Unrecognized characters in expression">>]
     ELSE IF ev.err = NoError
     THEN [result |-> NumberToString(ev.val), error |-> NULL]
     ELSE [result |-> NULL, error |-> ev.err]

hasEqualsSign(chars) == \E i \in 1..Len(chars) : chars[i].recognized = "="

\* The expressions get the ids firstId, firstId + 1, ... from generateId.
buildExpressions(chars, firstId) ==
  IF Len(chars) = 0 THEN <<>>
  ELSE LET lines == groupIntoLines(chars)
       IN [k \in 1..Len(lines) |->
             [id |-> firstId + k - 1,
              characters |-> lines[k],
              boundingBox |-> mergeBoundingBoxes(BoxesOf(lines[k])),
              text |-> buildExpressionString(lines[k]),
              result |-> IF hasEqualsSign(lines[k])
                         THEN parser_evaluateExpression(
                                buildExpressionString(lines[k])).result
                         ELSE NULL,
              hasEquals |-> hasEqualsSign(lines[k])]]

----------------------------------------------------------------------------
(* Input strokes *)

Pt(x, y) == [x |-> x, y |-> y]

\* What the user can draw: the two bars of a "+", a "1" far to the right,
\* a long underline touching everything above it, and a tap (one point).
Shapes ==
  [bar   |-> <<Pt(0, 20), Pt(40, 20)>>,
   stem  |-> <<Pt(20, 0), Pt(20, 40)>>,
   one   |-> <<Pt(200, 0), Pt(210, 40)>>,
   bar2  |-> <<Pt(100, 20), Pt(140, 20)>>,
   mid   |-> <<Pt(60, 20), Pt(80, 20)>>,
   under |-> <<Pt(0, 30), Pt(210, 30)>>,
   tap   |-> <<Pt(100, 100)>>,
   stem2 |-> <<Pt(50, 0), Pt(50, 40)>>,
   stem3 |-> <<Pt(80, 0), Pt(80, 40)>>,
   slab  |-> <<Pt(0, 18), Pt(40, 22)>>,
   diag  |-> <<Pt(0, 0), Pt(200, 200)>>]

ShapeNames == DOMAIN Shapes

\* The shapes drawn on the canvases.
CanvasShapes == {"bar", "one", "under", "tap"}
GroupShapes == {"bar", "bar2", "mid", "tap"}

StrokeDurationMs == 100
Gaps == {100, 600}
\* On the group canvas time only orders strokes and timers.
GroupGaps == {100}

\* The point stream of shape, pen down at tDown and up at tUp.
TimedPoints(shape, tDown, tUp) ==
  [i \in 1..Len(shape) |->
     [x |-> shape[i].x, y |-> shape[i].y,
      timestamp |-> IF i = 1 THEN tDown ELSE tUp]]

----------------------------------------------------------------------------
(* The segmenting canvas (MathCanvasV2 and CharacterGrouper) before any stroke *)

\* currentCharacter = null: a record of the same shape with no strokes.
NoCharacter ==
  [id |-> 0, strokes |-> <<>>,
   boundingBox |-> [minX |-> 0, minY |-> 0, maxX |-> 0, maxY |-> 0],
   lastStrokeTime |-> 0, isComplete |-> FALSE, recognizedAs |-> NULL,
   confidence |-> 0]

\* The fields the CharacterGrouper constructor sets.
NewGrouper ==
  [characters |-> <<>>, currentCharacter |-> NoCharacter, nextId |-> 1,
   completionTimer |-> NoTimer]

\* useState([]), useState(null), useRef(null) of MathCanvasV2.
NewCanvasV2 ==
  [characters |-> <<>>, currentChar |-> NoCharacter, expressionTimer |-> NoTimer]

\* The useState initial values of the V2 page.
NewPageV2 ==
  [status |-> <<"Ready">>, expression |-> <<>>, result |-> <<>>, charCount |-> 0]

\* What the layout functions returned: nothing yet.
NoLayout == [by |-> "none", lines |-> <<>>, expressions |-> <<>>, positions |-> <<>>]

LayoutUnused == inCharacters = <<>> /\ outLayout = NoLayout

\* The module-level variables of the recognizer as the module is loaded:
\* model = null, modelLoadFailed = false, tesseractWorker = null,
\* useTesseract = false.
NewRecognizer ==
  [model |-> FALSE, modelLoadFailed |-> FALSE, isModelLoading |-> FALSE,
   modelLoadPromise |-> "null", tesseractWorker |-> FALSE, useTesseract |-> FALSE]

\* No recognizeCharacter call has settled yet.
NoRecognition ==
  [settled |-> "none", character |-> "none", by |-> "none", label |-> NULL,
   confidence |-> 0, primaryFailed |-> FALSE]

RecognizerUnused == recognizer = NewRecognizer /\ outRecognition = NoRecognition

\* No boxes were passed to the merge functions.
NoBoxes == [by |-> "none", merged |-> <<>>]

BoxesUnused == inBoxes = <<>> /\ outBoxes = NoBoxes

MaxCallers == 4
MaxCalls == 6

\* The callers of initializeModel: the mount effect of a canvas and the
\* recognizeCharacter calls.
Callers == 1..MaxCallers

\* No initializeModel call was made: what each caller got from its last
\* call, the calls made and the loads started.
NoLoad == [calls |-> [c \in Callers |-> "idle"], made |-> 0, attempts |-> 0]

LoadUnused == modelLoad = NoLoad

GrouperUnused ==
  /\ grouper = NewGrouper
  /\ canvasV2 = NewCanvasV2
  /\ pageV2 = NewPageV2
  /\ forced = 0
  /\ timeouts = {}

\* A live timer: what it runs (kind, and the group id of a debounce timer)
\* and when.  A timer's handle is its deadline.
Timeout(kind, id, deadline) == [kind |-> kind, id |-> id, deadline |-> deadline]

\* setTimeout and clearTimeout on the set of live timers; clearTimeout of a
\* handle that is not live does nothing.
setTimeout(live, kind, id, deadline) == live \cup {Timeout(kind, id, deadline)}

clearTimeout(live, kind, id, handle) == live \ {Timeout(kind, id, handle)}

----------------------------------------------------------------------------
(* Per-character canvas (MathCanvas with recognition debounce) *)

RecognitionDebounceMs == 300

\* What the recognizer can answer for a character.
RecognitionOutcomes ==
  {[label |-> "1", confidence |-> 90],
   [label |-> "=", confidence |-> 85]}

InitChar ==
  /\ now = 0
  /\ idCounter = 0
  /\ strokes = <<>>
  /\ characters = <<>>
  /\ expressions = <<>>
  /\ isProcessing = FALSE
  /\ recognitionTimer = NoTimer
  /\ inflight = <<>>
  /\ modelReady = FALSE
  /\ drawn = 0
  /\ clears = 0
  /\ groups = <<>>
  /\ debounceTimer = <<>>
  /\ pendingReady = <<>>
  /\ globalScope = <<>>
  /\ evalLog = <<>>
  /\ inStrokes = <<>>
  /\ outCharacters = <<>>
  /\ pairTested = <<>>
  /\ GrouperUnused
  /\ LayoutUnused
  /\ RecognizerUnused
  /\ BoxesUnused
  /\ LoadUnused

\* initializeModel settles (loaded or failed): isModelReady() becomes true.
ModelSettles ==
  /\ ~modelReady
  /\ modelReady' = TRUE
  /\ UNCHANGED <<now, idCounter, strokes, characters, expressions, isProcessing,
                 recognitionTimer, inflight, drawn, clears>>
  /\ UNCHANGED <<groupVars, solverVars, clusterVars, layoutVars, recognizerVars, boxVars, loadVars, grouperVars, timeouts>>

\* handlePointerUp after the pointer-down and pointer-moves that drew shape.
\* A pending timer whose deadline lies before the pointer-up fires first.
handlePointerUp(name, gap) ==
  LET tDown == now + gap
      tUp == tDown + StrokeDurationMs
      currentStroke == TimedPoints(Shapes[name], tDown, tUp)
      newStroke == [id |-> idCounter + 1, points |-> currentStroke,
                    boundingBox |-> calculateBoundingBox(currentStroke)]
      updated == addStrokeToCharacters(characters, newStroke, idCounter + 2)
  IN /\ drawn < MaxStrokes
     /\ recognitionTimer = NoTimer \/ tUp <= recognitionTimer
     /\ drawn' = drawn + 1
     /\ IF Len(currentStroke) < 2
        THEN UNCHANGED <<now, idCounter, strokes, characters, recognitionTimer>>
        ELSE /\ now' = tUp
             /\ strokes' = Append(strokes, newStroke)
             /\ characters' = updated
             /\ idCounter' = idCounter + 2
             /\ recognitionTimer' = tUp + RecognitionDebounceMs
     /\ UNCHANGED <<expressions, isProcessing, inflight, modelReady, clears>>
     /\ UNCHANGED <<groupVars, solverVars, clusterVars, layoutVars, recognizerVars, boxVars, loadVars, grouperVars, timeouts>>

NeedsRecognition(chars) == SelectSeq(chars, LAMBDA c : c.recognized = NULL)

\* The debounce timer callback of scheduleRecognition.
RecognitionTimerFires ==
  /\ recognitionTimer # NoTimer
  /\ now' = Max(now, recognitionTimer)
  /\ recognitionTimer' = NoTimer
  /\ IF ~modelReady
     THEN UNCHANGED <<isProcessing, inflight>>
     ELSE /\ isProcessing' = TRUE
          /\ inflight' = IF NeedsRecognition(characters) = <<>>
                         THEN inflight
                         ELSE Append(inflight, NeedsRecognition(characters))
  /\ UNCHANGED <<idCounter, strokes, characters, expressions, modelReady,
                 drawn, clears>>
  /\ UNCHANGED <<groupVars, solverVars, clusterVars, layoutVars, recognizerVars, boxVars, loadVars, grouperVars, timeouts>>

ApplyRecognized_ByPosition(current, recognizedChars) ==
  [i \in 1..Len(current) |->
     IF i <= Len(recognizedChars) THEN recognizedChars[i] ELSE current[i]]

\* current.map(c => recognized.get(c.id) || c)
ApplyRecognized(current, recognizedChars) ==
  [i \in 1..Len(current) |->
     IF \E k \in 1..Len(recognizedChars) : recognizedChars[k].id = current[i].id
     THEN recognizedChars[CHOOSE k \in 1..Len(recognizedChars) :
                            recognizedChars[k].id = current[i].id]
     ELSE current[i]]

\* Promise.all of batch k settles: the .then callback of scheduleRecognition.
RecognitionCompletes(k, outcome) ==
  LET batch == inflight[k]
      recognizedChars == [i \in 1..Len(batch) |->
                            [batch[i] EXCEPT !.recognized = outcome[i].label,
                                             !.confidence = outcome[i].confidence]]
  IN /\ characters' = ApplyRecognized(characters, recognizedChars)
     /\ expressions' = buildExpressions(characters', idCounter + 1)
     /\ idCounter' = idCounter + Len(expressions')
     /\ isProcessing' = FALSE
     /\ inflight' = SelectSeqIdx(inflight, LAMBDA i : i # k)
     /\ UNCHANGED <<now, strokes, recognitionTimer, modelReady, drawn, clears>>
     /\ UNCHANGED <<groupVars, solverVars, clusterVars, layoutVars, recognizerVars, boxVars, loadVars, grouperVars, timeouts>>

\* handleClear of the per-character canvas.
handleClearChar ==
  /\ clears < MaxClears
  /\ clears' = clears + 1
  /\ strokes' = <<>>
  /\ characters' = <<>>
  /\ expressions' = <<>>
  /\ UNCHANGED <<now, idCounter, isProcessing, recognitionTimer, inflight,
                 modelReady, drawn>>
  /\ UNCHANGED <<groupVars, solverVars, clusterVars, layoutVars, recognizerVars, boxVars, loadVars, grouperVars, timeouts>>

NextChar ==
  \/ ModelSettles
  \/ \E name \in CanvasShapes, gap \in Gaps : handlePointerUp(name, gap)
  \/ RecognitionTimerFires
  \/ \E k \in 1..Len(inflight) :
       \E outcome \in [1..Len(inflight[k]) -> RecognitionOutcomes] :
         RecognitionCompletes(k, outcome)
  \/ handleClearChar

SpecChar == InitChar /\ [][NextChar]_vars

----------------------------------------------------------------------------
(* Claims about the per-character canvas *)

WithoutBatch(k) == SelectSeqIdx(inflight, LAMBDA n : n # k)

\* C1: a recognition result computed for an earlier membership of a cluster
\* is discarded: a cluster's label goes from unknown to known only in a step
\* that settles a recognition of the cluster's current strokes.
C1_StaleResultDiscarded ==
  [][\A i \in 1..Len(characters) : \A j \in 1..Len(characters') :
       (/\ characters'[j].id = characters[i].id
        /\ characters[i].recognized = NULL
        /\ characters'[j].recognized # NULL)
       => \E k \in 1..Len(inflight) :
            /\ inflight' = WithoutBatch(k)
            /\ \E m \in 1..Len(inflight[k]) :
                 /\ inflight[k][m].id = characters[i].id
                 /\ inflight[k][m].strokes = characters[i].strokes]_vars

CharactersHolding(strokeId) ==
  {j \in 1..Len(characters) :
     \E k \in 1..Len(characters[j].strokes) : characters[j].strokes[k].id = strokeId}

StrokesPartitioned ==
  \A i \in 1..Len(strokes) : Cardinality(CharactersHolding(strokes[i].id)) = 1

RecognitionKeepsStrokes ==
  (strokes' = strokes /\ clears' = clears)
  => /\ Len(characters') = Len(characters)
     /\ \A i \in 1..Len(characters) :
          /\ characters'[i].id = characters[i].id
          /\ characters'[i].strokes = characters[i].strokes
          /\ characters'[i].boundingBox = characters[i].boundingBox

\* C2: recognition never adds or removes strokes: every stroke of the strokes
\* list is in exactly one character, and a step that is neither a stroke nor
\* a clear changes no character's id, strokes or bounding box.
C2_RecognitionNeverChangesStrokes ==
  []StrokesPartitioned /\ [][RecognitionKeepsStrokes]_vars

----------------------------------------------------------------------------
(* Group-merge clustering (lib/stroke-utils.ts): boxes of four fields *)

Box4(minX, minY, maxX, maxY) ==
  [minX |-> minX, minY |-> minY, maxX |-> maxX, maxY |-> maxY]

utils_calculateBoundingBox(points) ==
  IF Len(points) = 0 THEN Box4(0, 0, 0, 0)
  ELSE Box4(SetMin({points[i].x : i \in 1..Len(points)}),
            SetMin({points[i].y : i \in 1..Len(points)}),
            SetMax({points[i].x : i \in 1..Len(points)}),
            SetMax({points[i].y : i \in 1..Len(points)}))

utils_mergeBoundingBoxes(a, b) ==
  Box4(Min(a.minX, b.minX), Min(a.minY, b.minY),
       Max(a.maxX, b.maxX), Max(a.maxY, b.maxY))

\* The square of boundingBoxDistance(a, b).
boundingBoxDistanceSq(a, b) ==
  LET dx == IF a.maxX < b.minX THEN b.minX - a.maxX
            ELSE IF b.maxX < a.minX THEN a.minX - b.maxX
            ELSE 0
      dy == IF a.maxY < b.minY THEN b.minY - a.maxY
            ELSE IF b.maxY < a.minY THEN a.minY - b.maxY
            ELSE 0
  IN dx * dx + dy * dy

RECURSIVE GroupBoxLoop(_, _, _)
GroupBoxLoop(ss, i, result) ==
  IF i > Len(ss) THEN result
  ELSE GroupBoxLoop(ss, i + 1, utils_mergeBoundingBoxes(result, ss[i].boundingBox))

calculateGroupBoundingBox(ss) ==
  IF Len(ss) = 0 THEN Box4(0, 0, 0, 0)
  ELSE GroupBoxLoop(ss, 2, ss[1].boundingBox)

Infinity == -1
LessThan_OrEqual(d, bound) == bound = Infinity \/ d <= bound
LessThan(d, bound) == bound = Infinity \/ d < bound

\* The loop of findClosestGroup from 0-based index i on; distances squared.
RECURSIVE FindClosestLoop(_, _, _, _, _, _)
FindClosestLoop(stroke, gs, threshold, i, closestIndex, closestDistance) ==
  IF i >= Len(gs) THEN closestIndex
  ELSE LET distance == boundingBoxDistanceSq(stroke.boundingBox, gs[i + 1].boundingBox)
       IN IF distance <= threshold * threshold /\ LessThan(distance, closestDistance)
          THEN FindClosestLoop(stroke, gs, threshold, i + 1, i, distance)
          ELSE FindClosestLoop(stroke, gs, threshold, i + 1, closestIndex, closestDistance)

\* The 0-based index of the closest group within threshold, or -1.
findClosestGroup(stroke, gs, threshold) ==
  FindClosestLoop(stroke, gs, threshold, 0, -1, Infinity)

----------------------------------------------------------------------------
(* Group canvas (MathCanvas with per-group debounce) and its page *)

DebounceMs == 1000
ClusterThreshold == 50

PlainPoints(shape) == [i \in 1..Len(shape) |-> [x |-> shape[i].x, y |-> shape[i].y]]

\* What recognize(group) can resolve to; Rejected stands for a rejection.
Rejected == <<"rejected">>
GroupTexts == {<<"x", "=", "5">>, <<"x", "+", "3", "=">>}

InitGroup ==
  /\ now = 0
  /\ idCounter = 0
  /\ drawn = 0
  /\ clears = 0
  /\ strokes = <<>>
  /\ characters = <<>>
  /\ expressions = <<>>
  /\ isProcessing = FALSE
  /\ recognitionTimer = NoTimer
  /\ inflight = <<>>
  /\ modelReady = FALSE
  /\ groups = <<>>
  /\ debounceTimer = <<>>
  /\ pendingReady = <<>>
  /\ globalScope = <<>>
  /\ evalLog = <<>>
  /\ inStrokes = <<>>
  /\ outCharacters = <<>>
  /\ pairTested = <<>>
  /\ GrouperUnused
  /\ LayoutUnused
  /\ RecognizerUnused
  /\ BoxesUnused
  /\ LoadUnused

UpdatedGroups_KeepsResult(prevGroups, newStroke, closestGroupIndex, freshId) ==
  IF closestGroupIndex >= 0
  THEN [index \in 1..Len(prevGroups) |->
          IF index - 1 = closestGroupIndex
          THEN LET newStrokes == Append(prevGroups[index].strokes, newStroke)
               IN [prevGroups[index] EXCEPT
                     !.strokes = newStrokes,
                     !.boundingBox = calculateGroupBoundingBox(newStrokes),
                     !.isProcessing = FALSE]
          ELSE prevGroups[index]]
  ELSE Append(prevGroups,
              [id |-> freshId, strokes |-> <<newStroke>>,
               boundingBox |-> newStroke.boundingBox,
               expression |-> NULL, result |-> NULL, isProcessing |-> FALSE])

UpdatedGroups_Replaces(prevGroups, newStroke, closestGroupIndex, freshId) ==
  IF closestGroupIndex >= 0
  THEN [index \in 1..Len(prevGroups) |->
          IF index - 1 = closestGroupIndex
          THEN [prevGroups[index] EXCEPT
                  !.strokes = <<newStroke>>,
                  !.boundingBox = calculateGroupBoundingBox(<<newStroke>>),
                  !.result = NULL,
                  !.expression = NULL,
                  !.isProcessing = FALSE]
          ELSE prevGroups[index]]
  ELSE Append(prevGroups,
              [id |-> freshId, strokes |-> <<newStroke>>,
               boundingBox |-> newStroke.boundingBox,
               expression |-> NULL, result |-> NULL, isProcessing |-> FALSE])

\* The groups after newStroke joins the group at 0-based index or opens one.
UpdatedGroups(prevGroups, newStroke, closestGroupIndex, freshId) ==
  IF closestGroupIndex >= 0
  THEN [index \in 1..Len(prevGroups) |->
          IF index - 1 = closestGroupIndex
          THEN LET newStrokes == Append(prevGroups[index].strokes, newStroke)
               IN [prevGroups[index] EXCEPT
                     !.strokes = newStrokes,
                     !.boundingBox = calculateGroupBoundingBox(newStrokes),
                     !.result = NULL,
                     !.expression = NULL,
                     !.isProcessing = FALSE]
          ELSE prevGroups[index]]
  ELSE Append(prevGroups,
              [id |-> freshId, strokes |-> <<newStroke>>,
               boundingBox |-> newStroke.boundingBox,
               expression |-> NULL, result |-> NULL, isProcessing |-> FALSE])

GroupById(gs, id) == gs[CHOOSE i \in 1..Len(gs) : gs[i].id = id]

TimerSet(timers, id, entry) ==
  [k \in DOMAIN timers \cup {id} |-> IF k = id THEN entry ELSE timers[k]]
TimerCleared(timers, id) == [k \in DOMAIN timers \ {id} |-> timers[k]]

\* finishDrawing after the pointer events that drew shape.  Timers whose
\* deadline lies before the pointer-up fire first.
finishDrawing(name, gap) ==
  LET tUp == now + gap + StrokeDurationMs
      currentStroke == PlainPoints(Shapes[name])
      newStroke == [id |-> idCounter + 1, points |-> currentStroke,
                    timestamp |-> tUp,
                    boundingBox |-> utils_calculateBoundingBox(currentStroke)]
      closestGroupIndex == findClosestGroup(newStroke, groups, ClusterThreshold)
      updatedGroups == UpdatedGroups(groups, newStroke, closestGroupIndex, idCounter + 2)
      affectedGroupId == IF closestGroupIndex >= 0
                         THEN groups[closestGroupIndex + 1].id
                         ELSE idCounter + 2
  IN /\ drawn < MaxStrokes
     /\ \A live \in timeouts : tUp <= live.deadline
     /\ drawn' = drawn + 1
     /\ IF Len(currentStroke) < 2
        THEN UNCHANGED <<now, idCounter, groups, debounceTimer, timeouts>>
        ELSE /\ now' = tUp
             /\ idCounter' = idCounter + 2
             /\ groups' = updatedGroups
             /\ debounceTimer' =
                  TimerSet(debounceTimer, affectedGroupId,
                           [deadline |-> tUp + DebounceMs,
                            group |-> GroupById(updatedGroups, affectedGroupId)])
             /\ timeouts' =
                  setTimeout(IF affectedGroupId \in DOMAIN debounceTimer
                             THEN clearTimeout(timeouts, "debounce", affectedGroupId,
                                               debounceTimer[affectedGroupId].deadline)
                             ELSE timeouts,
                             "debounce", affectedGroupId, tUp + DebounceMs)
     /\ UNCHANGED <<clears, pendingReady, charVars, solverVars, clusterVars, layoutVars, recognizerVars, boxVars, loadVars, grouperVars>>

\* The debounce callback of group id: marks the group and calls onGroupReady,
\* which starts recognize(group).
DebounceFires(id) ==
  /\ id \in DOMAIN debounceTimer
  /\ Timeout("debounce", id, debounceTimer[id].deadline) \in timeouts
  /\ \A other \in timeouts : debounceTimer[id].deadline <= other.deadline
  /\ now' = Max(now, debounceTimer[id].deadline)
  /\ timeouts' = timeouts \ {Timeout("debounce", id, debounceTimer[id].deadline)}
  /\ debounceTimer' = TimerCleared(debounceTimer, id)
  /\ groups' = [i \in 1..Len(groups) |->
                  IF groups[i].id = id THEN [groups[i] EXCEPT !.isProcessing = TRUE]
                  ELSE groups[i]]
  /\ pendingReady' = Append(pendingReady, debounceTimer[id].group)
  /\ UNCHANGED <<idCounter, drawn, clears, charVars, solverVars, clusterVars, layoutVars, recognizerVars, boxVars, loadVars, grouperVars>>

updateGroupResult(prev, groupId, expression, result) ==
  [i \in 1..Len(prev) |->
     IF prev[i].id = groupId
     THEN [prev[i] EXCEPT !.expression = expression, !.result = result,
                          !.isProcessing = FALSE]
     ELSE prev[i]]

\* handleGroupReady resumes after recognize(group): solve and write back.
handleGroupReady(k, recognized) ==
  LET group == pendingReady[k]
      sol == solve(recognized, globalScope)
  IN /\ pendingReady' = SelectSeqIdx(pendingReady, LAMBDA n : n # k)
     /\ IF recognized = Rejected
        THEN /\ groups' = updateGroupResult(groups, group.id, <<>>, <<"?">>)
             /\ UNCHANGED globalScope
        ELSE /\ globalScope' = sol.scope
             /\ groups' = updateGroupResult(groups, group.id, recognized,
                             IF sol.error # NoError THEN <<"?">> ELSE sol.result)
     /\ UNCHANGED <<inputVars, debounceTimer, evalLog, charVars, clusterVars, layoutVars, recognizerVars, boxVars, loadVars, grouperVars, timeouts>>

\* handleClear of the page: clearCanvas, then clearScope.
handleClear ==
  /\ clears < MaxClears
  /\ clears' = clears + 1
  /\ timeouts' = timeouts \ {Timeout("debounce", id, debounceTimer[id].deadline) :
                                id \in DOMAIN debounceTimer}
  /\ debounceTimer' = <<>>
  /\ groups' = <<>>
  /\ globalScope' = clearScope
  /\ UNCHANGED <<now, idCounter, drawn, pendingReady, evalLog, charVars, clusterVars, layoutVars, recognizerVars, boxVars, loadVars,
                 grouperVars>>

NextGroup ==
  \/ \E name \in GroupShapes, gap \in GroupGaps : finishDrawing(name, gap)
  \/ \E id \in DOMAIN debounceTimer : DebounceFires(id)
  \/ \E k \in 1..Len(pendingReady) :
       \E recognized \in GroupTexts \cup {Rejected} : handleGroupReady(k, recognized)
  \/ handleClear

SpecGroup == InitGroup /\ [][NextGroup]_vars

----------------------------------------------------------------------------
(* Claims about the group-merge policy *)

Thresholds == {0, 10, 20, 50, 60}

ProbeStroke(name) ==
  [id |-> 0, points |-> PlainPoints(Shapes[name]), timestamp |-> 0,
   boundingBox |-> utils_calculateBoundingBox(PlainPoints(Shapes[name]))]

\* Squared distance from box to the group at 0-based index i.
DistSqTo(box, gs, i) == boundingBoxDistanceSq(box, gs[i + 1].boundingBox)

\* r is the answer required for box among gs within threshold.
IsClosestWithin(r, box, gs, threshold) ==
  IF \A i \in 0..(Len(gs) - 1) : DistSqTo(box, gs, i) > threshold * threshold
  THEN r = -1
  ELSE /\ r \in 0..(Len(gs) - 1)
       /\ DistSqTo(box, gs, r) <= threshold * threshold
       /\ \A i \in 0..(Len(gs) - 1) : DistSqTo(box, gs, r) <= DistSqTo(box, gs, i)
       /\ \A i \in 0..(r - 1) : DistSqTo(box, gs, i) > DistSqTo(box, gs, r)

\* C5: findClosestGroup returns the index of the group at minimum distance
\* when that minimum is within the threshold, -1 when every group is farther,
\* and the lowest index among groups at exactly the minimum distance.
C5_ClosestGroup ==
  \A name \in GroupShapes : \A threshold \in Thresholds :
     IsClosestWithin(findClosestGroup(ProbeStroke(name), groups, threshold),
                     ProbeStroke(name).boundingBox, groups, threshold)

\* Two groups at the same distance 20 from the probe "mid", the first chosen.
C5_Witness ==
  /\ Len(groups) = 2
  /\ DistSqTo(ProbeStroke("mid").boundingBox, groups, 0) = 400
  /\ DistSqTo(ProbeStroke("mid").boundingBox, groups, 1) = 400
  /\ findClosestGroup(ProbeStroke("mid"), groups, ClusterThreshold) = 0

BoxOfStrokes(ss) ==
  Box4(SetMin({ss[i].boundingBox.minX : i \in 1..Len(ss)}),
       SetMin({ss[i].boundingBox.minY : i \in 1..Len(ss)}),
       SetMax({ss[i].boundingBox.maxX : i \in 1..Len(ss)}),
       SetMax({ss[i].boundingBox.maxY : i \in 1..Len(ss)}))

\* The step added the stroke with id idCounter + 1 as the last stroke of
\* group k, as the group-merge policy prescribes.
StrokeJoined(k) ==
  LET g == groups'[k]
      ns == g.strokes[Len(g.strokes)]
      T2 == ClusterThreshold * ClusterThreshold
  IN /\ ns.id = idCounter + 1
     /\ \A i \in 1..Len(groups') :
          i # k => (i <= Len(groups) /\ groups'[i] = groups[i])
     /\ g.boundingBox = BoxOfStrokes(g.strokes)
     /\ g.expression = NULL /\ g.result = NULL
     /\ IF \E i \in 0..(Len(groups) - 1) : DistSqTo(ns.boundingBox, groups, i) <= T2
        THEN /\ Len(groups') = Len(groups)
             /\ IsClosestWithin(k - 1, ns.boundingBox, groups, ClusterThreshold)
             /\ g.id = groups[k].id
             /\ g.strokes = Append(groups[k].strokes, ns)
        ELSE /\ Len(groups') = Len(groups) + 1
             /\ k = Len(groups')
             /\ g.strokes = <<ns>>

\* C6: a finished stroke that matches a group is appended to exactly that
\* group, whose box becomes the merge of its strokes' boxes and whose
\* expression and result become unknown, every other group unchanged; a
\* stroke that matches nothing is appended as a new singleton group.
C6_StrokeJoinsOneGroup ==
  [][idCounter' # idCounter => \E k \in 1..Len(groups') : StrokeJoined(k)]_vars

\* A grown group whose result is unknown next to a group keeping its result.
C6_Witness ==
  \E k, other \in 1..Len(groups) :
     /\ Len(groups[k].strokes) = 2
     /\ groups[k].result = NULL
     /\ Len(groups[other].strokes) = 1
     /\ groups[other].result # NULL

IsPrefix(s, t) == Len(s) <= Len(t) /\ SubSeq(t, 1, Len(s)) = s

AllStrokeIds(gs) ==
  UNION {{gs[i].strokes[k].id : k \in 1..Len(gs[i].strokes)} : i \in 1..Len(gs)}

RECURSIVE StrokeCount(_)
StrokeCount(gs) == IF gs = <<>> THEN 0 ELSE Len(Head(gs).strokes) + StrokeCount(Tail(gs))

GroupsOnlyGrow ==
  clears' = clears
  => /\ Len(groups') >= Len(groups)
     /\ \A i \in 1..Len(groups) :
          /\ groups'[i].id = groups[i].id
          /\ IsPrefix(groups[i].strokes, groups'[i].strokes)
     /\ StrokeCount(groups') = StrokeCount(groups) + (IF idCounter' # idCounter THEN 1 ELSE 0)

\* C7: between two clears the group-merge policy is append-only: the number
\* of groups never decreases, every group keeps its id and its earlier
\* strokes in place, no two groups are merged, and every accepted stroke is
\* in exactly one group.
C7_AppendOnly ==
  /\ [](Cardinality(AllStrokeIds(groups)) = StrokeCount(groups))
  /\ [][GroupsOnlyGrow]_vars

\* Two groups that have grown to within the threshold of each other.
C7_Witness ==
  \E i, j \in 1..Len(groups) :
     /\ i # j
     /\ Len(groups[i].strokes) >= 2
     /\ boundingBoxDistanceSq(groups[i].boundingBox, groups[j].boundingBox)
           <= ClusterThreshold * ClusterThreshold

----------------------------------------------------------------------------
(* The solver driven directly: solve and clearScope calls of one session *)

T(a, b, c, d) == <<a, b, c, d>>

\* The expression texts handed to solve.
SolverTexts ==
  {<<"x", "=", "5">>, <<"x", "=", "2", "*", "3">>, <<"y", "=", "2">>,
   <<"x", "+", "3", "=">>, <<"y", "+", "3", "=">>, <<"2", "x", "=">>,
   <<"x", "=", "y">>, <<"2", "+", "2", "=">>, <<"5", TimesSign, "3", "=">>,
   <<"1", "?", "=">>, <<"8", DivideSign, "2", "=">>, <<>>}

LogEntry(op, text, result, error) ==
  [op |-> op, text |-> text, result |-> result, error |-> error]

InitSolver ==
  /\ now = 0
  /\ idCounter = 0
  /\ drawn = 0
  /\ clears = 0
  /\ strokes = <<>>
  /\ characters = <<>>
  /\ expressions = <<>>
  /\ isProcessing = FALSE
  /\ recognitionTimer = NoTimer
  /\ inflight = <<>>
  /\ modelReady = FALSE
  /\ groups = <<>>
  /\ debounceTimer = <<>>
  /\ pendingReady = <<>>
  /\ globalScope = <<>>
  /\ evalLog = <<>>
  /\ inStrokes = <<>>
  /\ outCharacters = <<>>
  /\ pairTested = <<>>
  /\ GrouperUnused
  /\ LayoutUnused
  /\ RecognizerUnused
  /\ BoxesUnused
  /\ LoadUnused

Solve(text) ==
  LET sol == solve(text, globalScope)
  IN /\ Len(evalLog) < MaxEvals
     /\ globalScope' = sol.scope
     /\ evalLog' = Append(evalLog, LogEntry("solve", text, sol.result, sol.error))
     /\ UNCHANGED <<inputVars, charVars, groupVars, clusterVars, layoutVars, recognizerVars, boxVars, loadVars, grouperVars, timeouts>>

ClearScope ==
  /\ Len(evalLog) < MaxEvals
  /\ globalScope' = clearScope
  /\ evalLog' = Append(evalLog, LogEntry("clear", <<>>, <<>>, <<>>))
  /\ UNCHANGED <<inputVars, charVars, groupVars, clusterVars, layoutVars, recognizerVars, boxVars, loadVars, grouperVars, timeouts>>

NextSolver ==
  \/ \E text \in SolverTexts : Solve(text)
  \/ ClearScope

SpecSolver == InitSolver /\ [][NextSolver]_vars

IsSolve(i, text) == evalLog[i].op = "solve" /\ evalLog[i].text = text

\* C3: clearing resets the scope to empty: right after a clear the scope is
\* empty, and "x+3=" evaluated right after a clear gives the placeholder "?"
\* with an undefined-variable error, also when x=5 was assigned before.
C3_ClearResetsScope ==
  /\ (evalLog # <<>> /\ evalLog[Len(evalLog)].op = "clear") => globalScope = <<>>
  /\ \A i \in 1..(Len(evalLog) - 1) :
       (evalLog[i].op = "clear" /\ IsSolve(i + 1, <<"x", "+", "3", "=">>))
       => /\ evalLog[i + 1].result = <<"?">>
          /\ evalLog[i + 1].error = <<"Undefined symbol", "x">>

C3_Witness ==
  /\ Len(evalLog) = 3
  /\ IsSolve(1, <<"x", "=", "5">>) /\ evalLog[1].result = <<"5">>
  /\ evalLog[2].op = "clear"
  /\ IsSolve(3, <<"x", "+", "3", "=">>)

\* Text at position k neither clears the scope nor can assign variable v.
KeepsVariable(k, v) ==
  /\ evalLog[k].op = "solve"
  /\ \A p \in 1..(Len(evalLog[k].text) - 1) :
       ~(evalLog[k].text[p] = v /\ evalLog[k].text[p + 1] = "=")

\* Assignment text, the variable it sets, a later text reading the variable,
\* and the result of the later text.
ScopeFacts ==
  {T(<<"x", "=", "5">>, "x", <<"x", "+", "3", "=">>, <<"8">>),
   T(<<"x", "=", "5">>, "x", <<"2", "x", "=">>, <<"1", "0">>),
   T(<<"x", "=", "2", "*", "3">>, "x", <<"x", "+", "3", "=">>, <<"9">>),
   T(<<"x", "=", "2", "*", "3">>, "x", <<"2", "x", "=">>, <<"1", "2">>),
   T(<<"y", "=", "2">>, "y", <<"y", "+", "3", "=">>, <<"5">>)}

\* C4: the scope persists across the evaluations of a session: "x=5" yields
\* "5" and a following "x+3=" yields "8"; after a successful assignment of v
\* every later evaluation reads that value, until a clear or another
\* assignment of v.
C4_ScopePersists ==
  /\ \A i \in 1..Len(evalLog) :
       IsSolve(i, <<"x", "=", "5">>)
       => evalLog[i].result = <<"5">> /\ evalLog[i].error = NoError
  /\ \A f \in ScopeFacts : \A i \in 1..Len(evalLog) : \A j \in (i + 1)..Len(evalLog) :
       (/\ IsSolve(i, f[1])
        /\ IsSolve(j, f[3])
        /\ \A k \in (i + 1)..(j - 1) : KeepsVariable(k, f[2]))
       => evalLog[j].result = f[4] /\ evalLog[j].error = NoError

C4_Witness ==
  /\ Len(evalLog) = 3
  /\ IsSolve(1, <<"x", "=", "5">>)
  /\ IsSolve(2, <<"y", "=", "2">>)
  /\ IsSolve(3, <<"x", "+", "3", "=">>) /\ evalLog[3].result = <<"8">>

----------------------------------------------------------------------------
(* The clustering functions applied to stroke lists *)

MaxLen == 3

ClusterShapes == {"bar", "stem", "stem2", "stem3", "slab"}
\* Pen-up to pen-down pauses: within a second even counting both strokes'
\* durations or not, and beyond a second.
ClusterGaps == {900, 1500}

FirstDownMs == 100

RECURSIVE DownTime(_, _)
DownTime(gaps, k) ==
  IF k = 1 THEN FirstDownMs
  ELSE DownTime(gaps, k - 1) + StrokeDurationMs + gaps[k]

\* The strokes named by names, drawn one after another with the pauses gaps.
ArrivalStrokes(names, gaps) ==
  [k \in 1..Len(names) |->
     LET pts == TimedPoints(Shapes[names[k]], DownTime(gaps, k),
                            DownTime(gaps, k) + StrokeDurationMs)
     IN [id |-> k, points |-> pts, boundingBox |-> calculateBoundingBox(pts)]]

Reverse(s) == [i \in 1..Len(s) |-> s[Len(s) + 1 - i]]

NoResult == [by |-> "none", characters |-> <<>>]
NoPair == [first |-> 0, second |-> 0, grouped |-> FALSE]

InitCluster ==
  /\ now = 0
  /\ idCounter = 0
  /\ drawn = 0
  /\ clears = 0
  /\ strokes = <<>>
  /\ characters = <<>>
  /\ expressions = <<>>
  /\ isProcessing = FALSE
  /\ recognitionTimer = NoTimer
  /\ inflight = <<>>
  /\ modelReady = FALSE
  /\ groups = <<>>
  /\ debounceTimer = <<>>
  /\ pendingReady = <<>>
  /\ globalScope = <<>>
  /\ evalLog = <<>>
  /\ \E n \in 0..MaxLen : \E names \in [1..n -> ClusterShapes] :
       \E gaps \in [2..n -> ClusterGaps] : \E reversed \in BOOLEAN :
          inStrokes = IF reversed THEN Reverse(ArrivalStrokes(names, gaps))
                      ELSE ArrivalStrokes(names, gaps)
  /\ outCharacters = NoResult
  /\ pairTested = NoPair
  /\ GrouperUnused
  /\ LayoutUnused
  /\ RecognizerUnused
  /\ BoxesUnused
  /\ LoadUnused

\* The canvas adds the strokes one by one (handlePointerUp).
RECURSIVE AddEachLoop(_, _, _, _)
AddEachLoop(chars, ss, k, firstId) ==
  IF k > Len(ss) THEN chars
  ELSE AddEachLoop(addStrokeToCharacters(chars, ss[k], firstId + k - 1),
                   ss, k + 1, firstId)

GroupAll ==
  /\ outCharacters' =
       [by |-> "groupStrokesIntoCharacters",
        characters |-> groupStrokesIntoCharacters(inStrokes, Len(inStrokes) + 1)]
  /\ pairTested' = NoPair
  /\ UNCHANGED <<inStrokes, layoutVars, recognizerVars, boxVars, loadVars>>
  /\ UNCHANGED <<inputVars, charVars, groupVars, solverVars, grouperVars, timeouts>>

AddEach ==
  /\ outCharacters' =
       [by |-> "addStrokeToCharacters",
        characters |-> AddEachLoop(<<>>, inStrokes, 1, Len(inStrokes) + 1)]
  /\ pairTested' = NoPair
  /\ UNCHANGED <<inStrokes, layoutVars, recognizerVars, boxVars, loadVars>>
  /\ UNCHANGED <<inputVars, charVars, groupVars, solverVars, grouperVars, timeouts>>

TestPair(i, j) ==
  /\ i # j
  /\ pairTested' = [first |-> i, second |-> j,
                    grouped |-> shouldGroupStrokes(inStrokes[i], inStrokes[j])]
  /\ outCharacters' = NoResult
  /\ UNCHANGED <<inStrokes, layoutVars, recognizerVars, boxVars, loadVars>>
  /\ UNCHANGED <<inputVars, charVars, groupVars, solverVars, grouperVars, timeouts>>

NextCluster ==
  \/ GroupAll
  \/ AddEach
  \/ \E i, j \in 1..Len(inStrokes) : TestPair(i, j)

SpecCluster == InitCluster /\ [][NextCluster]_vars

\* The pairs of indices the batch clustering finds related: it tests each
\* pair once, earlier index first.
TestedEdges(ss) ==
  {e \in (1..Len(ss)) \X (1..Len(ss)) :
     e[1] < e[2] /\ shouldGroupStrokes(ss[e[1]], ss[e[2]])}

\* The pairs related in one argument order or the other.
EitherEdges(ss) ==
  {e \in (1..Len(ss)) \X (1..Len(ss)) :
     /\ e[1] # e[2]
     /\ \/ shouldGroupStrokes(ss[e[1]], ss[e[2]])
        \/ shouldGroupStrokes(ss[e[2]], ss[e[1]])}

\* The indices linked to one of S by a chain of edges.
RECURSIVE ReachFrom(_, _)
ReachFrom(S, edges) ==
  LET next == S \cup {e[2] : e \in {d \in edges : d[1] \in S}}
                \cup {e[1] : e \in {d \in edges : d[2] \in S}}
  IN IF next = S THEN S ELSE ReachFrom(next, edges)

SameCharacter(chars, s1, s2) ==
  \E c \in 1..Len(chars) : {s1, s2} \subseteq Range(chars[c].strokes)

IsPartition(chars, ss) ==
  /\ \A c \in 1..Len(chars) : chars[c].strokes # <<>>
  /\ \A i \in 1..Len(ss) :
       Cardinality({p \in (1..Len(chars)) \X (1..Len(ss)) :
                      /\ p[2] <= Len(chars[p[1]].strokes)
                      /\ chars[p[1]].strokes[p[2]] = ss[i]}) = 1
  /\ \A c \in 1..Len(chars) : Range(chars[c].strokes) \subseteq Range(ss)

ComponentsOf(chars, ss, edges) ==
  \A i \in 1..Len(ss) :
     LET linked == ReachFrom({i}, edges)
     IN \A j \in 1..Len(ss) : SameCharacter(chars, ss[i], ss[j]) <=> j \in linked

ArrivalOrdered(ss) ==
  \A i, j \in 1..Len(ss) : i < j => LastTimestamp(ss[i]) <= FirstTimestamp(ss[j])

\* C8: groupStrokesIntoCharacters returns the connected components of the
\* pairwise shouldGroupStrokes relation: the characters partition the input
\* strokes, and two strokes share a character iff a chain of related strokes
\* links them (also when the two are not related directly).  The relation is
\* the one the function tests, earlier list index first; on lists in arrival
\* order it is the same as relating a pair in either argument order.
C8_ConnectedComponents ==
  outCharacters.by = "groupStrokesIntoCharacters"
  => /\ IsPartition(outCharacters.characters, inStrokes)
     /\ ComponentsOf(outCharacters.characters, inStrokes, TestedEdges(inStrokes))
     /\ ArrivalOrdered(inStrokes)
        => ComponentsOf(outCharacters.characters, inStrokes, EitherEdges(inStrokes))

\* A chain: first~second and second~third put three strokes in one character
\* although first and third are not related in either order.
C8_Witness ==
  /\ outCharacters.by = "groupStrokesIntoCharacters"
  /\ Len(inStrokes) = 3
  /\ Len(outCharacters.characters) = 1
  /\ <<1, 2>> \in TestedEdges(inStrokes)
  /\ <<2, 3>> \in TestedEdges(inStrokes)
  /\ <<1, 3>> \notin EitherEdges(inStrokes)

CenterInside(a, b) ==
  /\ b.minX <= a.centerX /\ a.centerX <= b.maxX
  /\ b.minY <= a.centerY /\ a.centerY <= b.maxY

\* Box h is a horizontal bar crossing the vertical bar v.
Crosses(h, v) ==
  /\ h.minX < v.minX /\ v.maxX < h.maxX
  /\ v.minY < h.minY /\ h.maxY < v.maxY
  /\ CenterInside(h, v) /\ CenterInside(v, h)

IsPlus(s1, s2) ==
  \/ Crosses(s1.boundingBox, s2.boundingBox)
  \/ Crosses(s2.boundingBox, s1.boundingBox)

\* C9: the two strokes of a "+" are grouped into one character, whichever is
\* drawn or passed first and whatever the pause between them, also when the
\* horizontal stroke has zero height or the vertical stroke zero width.
C9_PlusGrouped ==
  /\ (outCharacters.by # "none" /\ Len(inStrokes) = 2
        /\ IsPlus(inStrokes[1], inStrokes[2]))
     => Len(outCharacters.characters) = 1
  /\ (pairTested # NoPair
        /\ IsPlus(inStrokes[pairTested.first], inStrokes[pairTested.second]))
     => pairTested.grouped

\* C10: shouldGroupStrokes gives the same answer for a pair in both argument
\* orders.
C10_Symmetric ==
  pairTested # NoPair
  => pairTested.grouped = shouldGroupStrokes(inStrokes[pairTested.second],
                                             inStrokes[pairTested.first])

----------------------------------------------------------------------------
(* Timing and distance segmenter (lib/character-grouper.ts) *)

CompletionTimeout == 400
MaxStrokeDistance == 40
\* MAX_ASPECT_RATIO 2.5 as the fraction 5 / 2
MaxAspectRatioNum == 5
MaxAspectRatioDen == 2
MaxCharSize == 150

\* The last two tests of shouldStartNewCharacter on the merged box.
TooWide(width, height) ==
  width * MaxAspectRatioDen > height * MaxAspectRatioNum /\ width > MaxCharSize

TooLarge(width, height) == width > MaxCharSize /\ height > MaxCharSize

ExceedsSize_WideOnly(combinedBox) ==
  TooWide(combinedBox.maxX - combinedBox.minX, combinedBox.maxY - combinedBox.minY)

ExceedsSize(combinedBox) ==
  \/ TooWide(combinedBox.maxX - combinedBox.minX, combinedBox.maxY - combinedBox.minY)
  \/ TooLarge(combinedBox.maxX - combinedBox.minX, combinedBox.maxY - combinedBox.minY)

shouldStartNewCharacter_NoTimeGap(newStroke, currentChar) ==
  IF currentChar = NoCharacter \/ Len(currentChar.strokes) = 0 THEN TRUE
  ELSE IF boundingBoxDistanceSq(newStroke.boundingBox, currentChar.boundingBox)
            > MaxStrokeDistance * MaxStrokeDistance THEN TRUE
  ELSE ExceedsSize(utils_mergeBoundingBoxes(newStroke.boundingBox,
                                            currentChar.boundingBox))

shouldStartNewCharacter(newStroke, currentChar) ==
  IF currentChar = NoCharacter \/ Len(currentChar.strokes) = 0 THEN TRUE
  ELSE IF newStroke.timestamp - currentChar.lastStrokeTime > CompletionTimeout THEN TRUE
  ELSE IF boundingBoxDistanceSq(newStroke.boundingBox, currentChar.boundingBox)
            > MaxStrokeDistance * MaxStrokeDistance THEN TRUE
  ELSE ExceedsSize(utils_mergeBoundingBoxes(newStroke.boundingBox,
                                            currentChar.boundingBox))

\* A stroke of more than 10 points whose ends are less than 20 apart.
StrokeLoops(stroke) ==
  /\ Len(stroke.points) > 10
  /\ (stroke.points[Len(stroke.points)].x - stroke.points[1].x)
       * (stroke.points[Len(stroke.points)].x - stroke.points[1].x)
     + (stroke.points[Len(stroke.points)].y - stroke.points[1].y)
       * (stroke.points[Len(stroke.points)].y - stroke.points[1].y) < 20 * 20

\* aspectRatio = width / max(height, 1); the comparisons are cross-multiplied.
Pattern(strokeCount, hasLoop, width, h1) ==
  [strokeCount |-> strokeCount, hasLoop |-> hasLoop,
   isVertical |-> 2 * width < h1, isHorizontal |-> width > 2 * h1,
   roundish |-> 5 * width > 3 * h1 /\ 2 * width < 3 * h1]

analyzeStrokePattern(char) ==
  Pattern(Len(char.strokes),
          \E i \in 1..Len(char.strokes) : StrokeLoops(char.strokes[i]),
          char.boundingBox.maxX - char.boundingBox.minX,
          Max(char.boundingBox.maxY - char.boundingBox.minY, 1))

isStrokeHorizontal(stroke) ==
  /\ Len(stroke.points) >= 2
  /\ Abs(stroke.points[Len(stroke.points)].x - stroke.points[1].x)
       > 2 * Abs(stroke.points[Len(stroke.points)].y - stroke.points[1].y)

isStrokeVertical(stroke) ==
  /\ Len(stroke.points) >= 2
  /\ Abs(stroke.points[Len(stroke.points)].y - stroke.points[1].y)
       > 2 * Abs(stroke.points[Len(stroke.points)].x - stroke.points[1].x)

\* confidence in hundredths
Guess(char, confidence) == [char |-> char, confidence |-> confidence]

TwoStrokeGuess(stroke1, stroke2) ==
  IF \/ isStrokeHorizontal(stroke1) /\ isStrokeVertical(stroke2)
     \/ isStrokeVertical(stroke1) /\ isStrokeHorizontal(stroke2)
  THEN Guess("+", 85)
  ELSE IF isStrokeHorizontal(stroke1) /\ isStrokeHorizontal(stroke2)
  THEN Guess("=", 85)
  ELSE Guess("?", 0)

PatternGuess(pattern, char) ==
  IF pattern.strokeCount = 1 /\ pattern.hasLoop /\ pattern.roundish THEN Guess("0", 70)
  ELSE IF pattern.strokeCount = 1 /\ pattern.isVertical THEN Guess("1", 70)
  ELSE IF pattern.strokeCount = 1 /\ pattern.isHorizontal THEN Guess("-", 80)
  ELSE IF pattern.strokeCount = 2 THEN TwoStrokeGuess(char.strokes[1], char.strokes[2])
  ELSE Guess("?", 0)

heuristicRecognize(char) == PatternGuess(analyzeStrokePattern(char), char)

\* CharacterGrouper.getExpression: sort by boundingBox.minX, join recognizedAs || '?'.
CharMinX(c) == c.boundingBox.minX

RecognizedOr(c) == IF c.recognizedAs = NULL THEN "?" ELSE c.recognizedAs

JoinRecognized(sorted) == [i \in 1..Len(sorted) |-> RecognizedOr(sorted[i])]

getExpression(chars) == JoinRecognized(SortByKey(chars, CharMinX))

----------------------------------------------------------------------------
(* CharacterGrouper inside MathCanvasV2 inside the V2 page *)

ExpressionTimeoutMs == 1500
MaxForce == 1

\* What a grouper call can change: the three objects and the live timers.
World(g, c, p, live) == [grouper |-> g, canvasV2 |-> c, pageV2 |-> p, timeouts |-> live]

\* The candidate as the callback leaves it: isComplete set by the grouper,
\* recognizedAs and confidence set from the heuristic guess.
Completed(char, heuristic) ==
  [char EXCEPT !.isComplete = TRUE, !.recognizedAs = heuristic.char,
               !.confidence = heuristic.confidence]

\* handleCharacterRecognized of the page, given canvasRef.getExpression().
CharacterRecognized(p, completedChar, currentExpr) ==
  [p EXCEPT !.charCount = @ + 1, !.expression = currentExpr,
            !.status = <<"Recognized", completedChar.recognizedAs,
                         completedChar.confidence>>]

\* The onCharacterComplete callback of MathCanvasV2 at time t; chars is
\* this.characters after the push.  The expression timer is cleared and set
\* again.
onCharacterComplete(w, completedChar, chars, t) ==
  World([w.grouper EXCEPT !.characters = chars],
        [w.canvasV2 EXCEPT !.characters = Append(@, completedChar),
                           !.currentChar = NoCharacter,
                           !.expressionTimer = t + ExpressionTimeoutMs],
        CharacterRecognized(w.pageV2, completedChar, getExpression(chars)),
        setTimeout(clearTimeout(w.timeouts, "expression", 0, w.canvasV2.expressionTimer),
                   "expression", 0, t + ExpressionTimeoutMs))

Pushed(w, completedChar, t) ==
  Only({onCharacterComplete(w, c, Append(w.grouper.characters, c), t) :
          c \in {completedChar}})

Nulled_Keeps(w) == w

\* this.currentCharacter = null
Nulled(w) == [w EXCEPT !.grouper.currentCharacter = NoCharacter]

finalizeCurrentCharacter_NeedsTwo(w, t) ==
  IF w.grouper.currentCharacter # NoCharacter
     /\ Len(w.grouper.currentCharacter.strokes) > 1
  THEN Nulled(Pushed(w, Completed(w.grouper.currentCharacter,
                                  heuristicRecognize(w.grouper.currentCharacter)), t))
  ELSE Nulled(w)

finalizeCurrentCharacter_Always(w, t) ==
  Nulled(Pushed(w, Completed(w.grouper.currentCharacter,
                             heuristicRecognize(w.grouper.currentCharacter)), t))

finalizeCurrentCharacter(w, t) ==
  IF w.grouper.currentCharacter # NoCharacter
     /\ Len(w.grouper.currentCharacter.strokes) > 0
  THEN Nulled(Pushed(w, Completed(w.grouper.currentCharacter,
                                  heuristicRecognize(w.grouper.currentCharacter)), t))
  ELSE Nulled(w)

\* The two branches of addStroke.
Started(w, stroke) ==
  [w EXCEPT !.grouper.currentCharacter =
               [id |-> w.grouper.nextId, strokes |-> <<stroke>>,
                boundingBox |-> stroke.boundingBox,
                lastStrokeTime |-> stroke.timestamp, isComplete |-> FALSE,
                recognizedAs |-> NULL, confidence |-> 0],
            !.grouper.nextId = @ + 1]

Extended_KeepsBox(w, stroke) ==
  [w EXCEPT !.grouper.currentCharacter =
               [@ EXCEPT !.strokes = Append(@, stroke),
                         !.lastStrokeTime = stroke.timestamp]]

Extended(w, stroke) ==
  [w EXCEPT !.grouper.currentCharacter =
               [@ EXCEPT !.strokes = Append(@, stroke),
                         !.boundingBox = utils_mergeBoundingBoxes(@, stroke.boundingBox),
                         !.lastStrokeTime = stroke.timestamp]]

resetCompletionTimer_NoClear(w, t) ==
  [w EXCEPT !.grouper.completionTimer = t + CompletionTimeout,
            !.timeouts = setTimeout(@, "completion", 0, t + CompletionTimeout)]

\* clearTimeout of this.completionTimer, then a new timer of COMPLETION_TIMEOUT.
resetCompletionTimer(w, t) ==
  [w EXCEPT !.grouper.completionTimer = t + CompletionTimeout,
            !.timeouts = setTimeout(clearTimeout(@, "completion", 0,
                                                 w.grouper.completionTimer),
                                    "completion", 0, t + CompletionTimeout)]

addStroke_DropsCandidate(w, stroke, t) ==
  resetCompletionTimer(
    IF shouldStartNewCharacter(stroke, w.grouper.currentCharacter)
    THEN Started(Nulled(w), stroke)
    ELSE Extended(w, stroke), t)

addStroke(w, stroke, t) ==
  resetCompletionTimer(
    IF shouldStartNewCharacter(stroke, w.grouper.currentCharacter)
    THEN Started(finalizeCurrentCharacter(w, t), stroke)
    ELSE Extended(w, stroke), t)

\* clearTimeout(this.completionTimer)
TimerStopped(w) ==
  [w EXCEPT !.timeouts = clearTimeout(@, "completion", 0, w.grouper.completionTimer)]

forceComplete_NoClear(w, t) == finalizeCurrentCharacter(w, t)

forceComplete(w, t) == finalizeCurrentCharacter(TimerStopped(w), t)

\* CharacterGrouper.clear
clear(w) ==
  [TimerStopped(w) EXCEPT !.grouper.characters = <<>>,
                          !.grouper.currentCharacter = NoCharacter]

\* clearTimeout(expressionTimerRef.current)
ExpressionTimerStopped(w) ==
  [w EXCEPT !.timeouts = clearTimeout(@, "expression", 0, w.canvasV2.expressionTimer)]

\* clearCanvas of MathCanvasV2
clearCanvas(w) ==
  [clear(ExpressionTimerStopped(w)) EXCEPT !.canvasV2.characters = <<>>,
                                           !.canvasV2.currentChar = NoCharacter]

\* The stroke finishDrawing builds from the drawn points at time t.
V2Stroke(id, points, t) ==
  [id |-> id, points |-> points, timestamp |-> t,
   boundingBox |-> utils_calculateBoundingBox(points)]

Current == World(grouper, canvasV2, pageV2, timeouts)

Becomes(w) ==
  /\ grouper' = w.grouper
  /\ canvasV2' = w.canvasV2
  /\ pageV2' = w.pageV2
  /\ timeouts' = w.timeouts

\* setCurrentChar(grouper.getCurrentCharacter()) after addStroke.
Shown(w) == [w EXCEPT !.canvasV2.currentChar = w.grouper.currentCharacter]

\* The strokes drawn on the segmenting canvas: the two bars of a "+", a "1"
\* far away, an underline and a diagonal that would make the character too
\* big, and a tap.  The bars come after a short or a long pause.
GrouperShapes == {"bar", "stem", "one", "under", "diag", "tap"}
\* Pen-up to pen-down pauses on the segmenting canvas; the longest lets the
\* next stroke end between a completion and the expression timeout after it.
LongGaps == Gaps \cup {1300}
GrouperGaps(name) ==
  IF name = "bar" THEN LongGaps ELSE IF name = "stem" THEN Gaps ELSE {100}

InitGrouper ==
  /\ now = 0
  /\ idCounter = 0
  /\ drawn = 0
  /\ clears = 0
  /\ strokes = <<>>
  /\ characters = <<>>
  /\ expressions = <<>>
  /\ isProcessing = FALSE
  /\ recognitionTimer = NoTimer
  /\ inflight = <<>>
  /\ modelReady = FALSE
  /\ groups = <<>>
  /\ debounceTimer = <<>>
  /\ pendingReady = <<>>
  /\ globalScope = <<>>
  /\ evalLog = <<>>
  /\ inStrokes = <<>>
  /\ outCharacters = <<>>
  /\ pairTested = <<>>
  /\ GrouperUnused
  /\ LayoutUnused
  /\ RecognizerUnused
  /\ BoxesUnused
  /\ LoadUnused

\* finishDrawing of MathCanvasV2: the pen goes down gap ms after the last
\* event and up StrokeDurationMs later.  A pending timer whose delay has
\* run out may still be waiting for the event loop.
v2_finishDrawing(name, gap) ==
  /\ drawn < MaxStrokes
  /\ now' = now + gap + StrokeDurationMs
  /\ drawn' = drawn + 1
  /\ IF Len(Shapes[name]) < 2
     THEN /\ UNCHANGED <<grouper, canvasV2, pageV2, timeouts, idCounter>>
     ELSE /\ idCounter' = idCounter + 1
          /\ Becomes(Shown(addStroke(Current,
                                     V2Stroke(idCounter + 1, PlainPoints(Shapes[name]), now'),
                                     now')))
  /\ UNCHANGED <<clears, forced, charVars, groupVars, solverVars, clusterVars, layoutVars, recognizerVars, boxVars, loadVars>>

\* Timers run in the order of their deadlines.
DueFirst(timer) == timer \in timeouts /\ \A other \in timeouts : timer.deadline <= other.deadline

\* The timer has run: it is no longer live.
Ran(w, timer) == [w EXCEPT !.timeouts = @ \ {timer}]

\* The callback of a live completion timer: finalizeCurrentCharacter.
TimerFinalizes(timer) ==
  /\ timer.kind = "completion"
  /\ DueFirst(timer)
  /\ now' = Max(now, timer.deadline)
  /\ \E w \in {finalizeCurrentCharacter(Ran(Current, timer), Max(now, timer.deadline))} :
        Becomes(w)

CompletionTimerFires ==
  /\ \E timer \in timeouts : TimerFinalizes(timer)
  /\ UNCHANGED <<idCounter, drawn, clears, forced, charVars, groupVars, solverVars,
                 clusterVars, layoutVars, recognizerVars, boxVars, loadVars>>

\* handleExpressionComplete of the page.
ExpressionComplete(p, expr, solved) ==
  [p EXCEPT !.expression = expr,
            !.result = IF solved.error # NoError THEN <<"?">> ELSE solved.result,
            !.status = IF solved.error # NoError
                       THEN <<"Error", expr, solved.error>>
                       ELSE <<"Expression", expr, solved.result>>]

\* The callback of a live expression timer.
TimerCompletes(timer) ==
  /\ timer.kind = "expression"
  /\ DueFirst(timer)
  /\ now' = Max(now, timer.deadline)
  /\ timeouts' = timeouts \ {timer}

ExpressionTimerFires ==
  /\ \E timer \in timeouts : TimerCompletes(timer)
  /\ \E expr \in {getExpression(grouper.characters)} :
       IF Len(expr) > 0 /\ Len(grouper.characters) > 0
       THEN \E solved \in {solve(expr, globalScope)} :
              /\ pageV2' = ExpressionComplete(pageV2, expr, solved)
              /\ globalScope' = solved.scope
       ELSE UNCHANGED <<pageV2, globalScope>>
  /\ UNCHANGED <<idCounter, drawn, clears, forced, grouper, canvasV2, evalLog,
                 charVars, groupVars, clusterVars, layoutVars, recognizerVars, boxVars, loadVars>>

\* forceRecognize of the canvas handle: grouper.forceComplete().
forceRecognize ==
  /\ forced < MaxForce
  /\ forced' = forced + 1
  /\ Becomes(forceComplete(Current, now))
  /\ UNCHANGED <<inputVars, charVars, groupVars, solverVars, clusterVars, layoutVars, recognizerVars, boxVars, loadVars>>

\* handleClear of the V2 page.
v2_handleClear ==
  /\ clears < MaxClears
  /\ clears' = clears + 1
  /\ grouper' = clearCanvas(Current).grouper
  /\ canvasV2' = clearCanvas(Current).canvasV2
  /\ timeouts' = clearCanvas(Current).timeouts
  /\ pageV2' = [status |-> <<"Canvas cleared">>, expression |-> <<>>,
                result |-> <<>>, charCount |-> 0]
  /\ globalScope' = clearScope
  /\ UNCHANGED <<now, idCounter, drawn, forced, evalLog, charVars, groupVars,
                 clusterVars, layoutVars, recognizerVars, boxVars, loadVars>>

NextGrouper ==
  \/ \E name \in GrouperShapes : \E gap \in GrouperGaps(name) :
        v2_finishDrawing(name, gap)
  \/ CompletionTimerFires
  \/ ExpressionTimerFires
  \/ forceRecognize
  \/ v2_handleClear

SpecGrouper == InitGrouper /\ [][NextGrouper]_vars

----------------------------------------------------------------------------
(* The segmenter's transition rule *)

\* The step is an addStroke call: finishDrawing built a stroke.
IsAddStroke == idCounter' = idCounter + 1 /\ drawn' = drawn + 1

\* The stroke the call was given: the candidate's newest stroke afterwards.
NewestStroke(char) == char.strokes[Len(char.strokes)]

MergedWidth(S, C) ==
  Max(S.boundingBox.maxX, C.boundingBox.maxX) - Min(S.boundingBox.minX, C.boundingBox.minX)

MergedHeight(S, C) ==
  Max(S.boundingBox.maxY, C.boundingBox.maxY) - Min(S.boundingBox.minY, C.boundingBox.minY)

\* merged width > merged height * 2.5 and merged width > 150, or both
\* merged sides > 150
OverThresholds(S, C) ==
  \/ 2 * MergedWidth(S, C) > 5 * MergedHeight(S, C) /\ MergedWidth(S, C) > 150
  \/ MergedWidth(S, C) > 150 /\ MergedHeight(S, C) > 150

StartsNew(S, C) ==
  \/ C = NoCharacter
  \/ S.timestamp - C.lastStrokeTime > 400
  \/ boundingBoxDistanceSq(S.boundingBox, C.boundingBox) > 40 * 40
  \/ OverThresholds(S, C)

\* C was finalized by the call and a new candidate holds S alone.
FinalizedAndStarted(S, C, before, after) ==
  /\ IF C = NoCharacter THEN after.characters = before.characters
     ELSE /\ Len(after.characters) = Len(before.characters) + 1
          /\ SubSeq(after.characters, 1, Len(before.characters)) = before.characters
          /\ after.characters[Len(after.characters)].id = C.id
          /\ after.characters[Len(after.characters)].strokes = C.strokes
          /\ after.characters[Len(after.characters)].isComplete
  /\ after.currentCharacter.id # C.id
  /\ after.currentCharacter.strokes = <<S>>
  /\ after.currentCharacter.boundingBox = S.boundingBox
  /\ after.currentCharacter.lastStrokeTime = S.timestamp
  /\ ~after.currentCharacter.isComplete

\* S was appended to C.
AppendedTo(S, C, before, after) ==
  /\ after.characters = before.characters
  /\ after.currentCharacter.id = C.id
  /\ after.currentCharacter.strokes = Append(C.strokes, S)
  /\ after.currentCharacter.boundingBox =
       utils_mergeBoundingBoxes(C.boundingBox, S.boundingBox)
  /\ after.currentCharacter.lastStrokeTime = S.timestamp
  /\ ~after.currentCharacter.isComplete

TransitionRule(S, C, before, after) ==
  /\ S.id = idCounter'
  /\ S.timestamp = now'
  /\ IF StartsNew(S, C) THEN FinalizedAndStarted(S, C, before, after)
     ELSE AppendedTo(S, C, before, after)
  /\ after.completionTimer = now' + 400

\* C11: on addStroke(S) with candidate C the grouper finalizes C and starts a
\* new candidate from S iff no candidate exists, or S.timestamp -
\* C.lastStrokeTime > 400, or the box distance > 40, or the merged box is
\* over the size thresholds; otherwise S is appended to C, C's box becomes
\* the merge and C.lastStrokeTime becomes S.timestamp.  Either way the
\* completion timer is restarted.
C11_TransitionRule ==
  [][IsAddStroke =>
       /\ grouper'.currentCharacter # NoCharacter
       /\ {timer \in timeouts' : timer.kind = "completion"}
            = {Timeout("completion", 0, now' + 400)}
       /\ TransitionRule(NewestStroke(grouper'.currentCharacter),
                         grouper.currentCharacter, grouper, grouper')]_vars

\* A first character was finalized by the stroke that started the second,
\* 200 ms after it, and a third stroke was appended to the second.
C11_Witness ==
  /\ forced = 0 /\ clears = 0 /\ drawn = 3
  /\ Len(grouper.characters) = 1
  /\ Len(grouper.currentCharacter.strokes) = 2
  /\ grouper.currentCharacter.strokes[1].timestamp
       = grouper.characters[1].lastStrokeTime + 200
  /\ Timeout("completion", 0, grouper.currentCharacter.lastStrokeTime + 400) \in timeouts

----------------------------------------------------------------------------
(* Completion by the timer *)

\* The event loop runs a timer's callback once its delay has passed.
SpecGrouperFair ==
  /\ InitGrouper
  /\ [][NextGrouper]_vars
  /\ WF_vars(CompletionTimerFires)
  /\ WF_vars(ExpressionTimerFires)

\* The number of addStroke, forceComplete and clear calls so far.
GrouperCalls == idCounter + forced + clears

MaxGrouperCalls == MaxStrokes + MaxForce + MaxClears

\* Candidate k was finalized: it is complete in the completed list, no longer
\* the current candidate, and the callback handed it to the canvas.
Finalized(k) ==
  /\ grouper.currentCharacter.id # k
  /\ \E i \in 1..Len(grouper.characters) :
       grouper.characters[i].id = k /\ grouper.characters[i].isComplete
  /\ \E j \in 1..Len(canvasV2.characters) : canvasV2.characters[j].id = k

\* A step that is no addStroke, forceComplete or clear call and ends
\* candidate k finalizes it.
EndsByFinalizing(k) ==
  grouper.currentCharacter.id = k /\ grouper'.currentCharacter.id # k
  /\ GrouperCalls' = GrouperCalls
  => Finalized(k)'

\* C12: whenever a candidate exists and no further stroke, forceComplete or
\* clear occurs, the completion timer eventually fires and the candidate is
\* finalized (isComplete, in the completed list, callback invoked), even
\* when it holds a single stroke.  The calls are bounded, so a candidate
\* cannot stay for ever, and when it goes without a call it is finalized.
C12_CompletionLiveness ==
  /\ (grouper.currentCharacter # NoCharacter) ~> (grouper.currentCharacter = NoCharacter)
  /\ [][\A k \in 1..MaxStrokes : EndsByFinalizing(k)]_vars

\* One stroke was added, nothing was forced or cleared, and the character is
\* complete: only the timer can have finalized it.
C12_Witness ==
  /\ idCounter = 1 /\ forced = 0 /\ clears = 0
  /\ Finalized(1)
  /\ Len(grouper.characters[1].strokes) = 1
  /\ \A timer \in timeouts : timer.kind # "completion"

----------------------------------------------------------------------------
(* Strokes that would make the character too big *)

\* S is in the strokes list of one of chars.
AbsorbedIn(S, chars) ==
  \E i \in 1..Len(chars) : \E j \in 1..Len(chars[i].strokes) : chars[i].strokes[j] = S

OversizeStartsNew(S, C, before, after) ==
  OverThresholds(S, C)
  => /\ FinalizedAndStarted(S, C, before, after)
     /\ ~AbsorbedIn(S, after.characters)

\* C13: for every active candidate C and incoming stroke S, if the box of C
\* merged with S exceeds the size and aspect thresholds, addStroke finalizes
\* C and starts a new candidate from S; S is never absorbed into C.
C13_OversizeNeverAbsorbed ==
  [][IsAddStroke /\ grouper.currentCharacter # NoCharacter
     => OversizeStartsNew(NewestStroke(grouper'.currentCharacter),
                          grouper.currentCharacter, grouper, grouper')]_vars

\* S came 200 ms after the last stroke of C, within 40 of it.
OnlySizeSeparates(S, C) ==
  /\ S.timestamp = C.lastStrokeTime + 200
  /\ boundingBoxDistanceSq(S.boundingBox, C.boundingBox) <= 40 * 40
  /\ OverThresholds(S, C)

\* Two characters were finalized by the size rule alone: the second stroke
\* made the box too wide, the third made it too large on both axes.
C13_Witness ==
  /\ forced = 0 /\ clears = 0
  /\ Len(grouper.characters) = 2
  /\ OnlySizeSeparates(grouper.characters[2].strokes[1], grouper.characters[1])
  /\ MergedHeight(grouper.characters[2], grouper.characters[1]) <= 150
  /\ Len(grouper.currentCharacter.strokes) = 1
  /\ OnlySizeSeparates(grouper.currentCharacter.strokes[1], grouper.characters[2])
  /\ MergedHeight(grouper.currentCharacter, grouper.characters[2]) > 150

----------------------------------------------------------------------------
(* Clearing and pending timers *)

\* C14: clear cancels every pending timer before the cluster state is
\* discarded, so that no callback scheduled before the clear runs after it:
\* on the per-character canvas no recognition timer is pending once
\* handleClear has run.
C14_ClearCancelsTimers ==
  [][clears' = clears + 1 => recognitionTimer' = NoTimer]_vars

----------------------------------------------------------------------------
(* The three canvases, one in use at a time *)

\* Each canvas as it is when mounted.
CharFresh ==
  /\ strokes = <<>> /\ characters = <<>> /\ expressions = <<>>
  /\ ~isProcessing /\ recognitionTimer = NoTimer /\ inflight = <<>>

GroupFresh == groups = <<>> /\ debounceTimer = <<>> /\ pendingReady = <<>>

GrouperFresh == grouper = NewGrouper /\ canvasV2 = NewCanvasV2 /\ pageV2 = NewPageV2

\* The handlers of a canvas run while the other two are as mounted.
NextCanvases ==
  \/ GroupFresh /\ GrouperFresh /\ NextChar
  \/ CharFresh /\ GrouperFresh /\ NextGroup
  \/ CharFresh /\ GroupFresh /\ NextGrouper

SpecCanvases == InitGrouper /\ [][NextCanvases]_vars

----------------------------------------------------------------------------
(* Live timers *)

LiveTimers(kind, id) == {timer \in timeouts : timer.kind = kind /\ timer.id = id}

\* C15: at any moment at most one completion timer is live per
\* CharacterGrouper and at most one debounce timer per group id, and the
\* live one is the most recently scheduled (the one the ref holds), so no
\* superseded timer can run.
C15_OneLiveTimer ==
  /\ Cardinality(LiveTimers("completion", 0)) <= 1
  /\ \A timer \in LiveTimers("completion", 0) : timer.deadline = grouper.completionTimer
  /\ \A timer \in timeouts :
       timer.kind = "debounce"
       => /\ Cardinality(LiveTimers("debounce", timer.id)) <= 1
          /\ timer.id \in DOMAIN debounceTimer
          /\ timer.deadline = debounceTimer[timer.id].deadline

\* A second stroke joined the candidate while the first stroke's timer was
\* still pending; only the second stroke's timer is live.
C15_Witness ==
  /\ Len(grouper.currentCharacter.strokes) = 2
  /\ grouper.currentCharacter.strokes[2].timestamp
       < grouper.currentCharacter.strokes[1].timestamp + 400
  /\ LiveTimers("completion", 0)
       = {Timeout("completion", 0, grouper.currentCharacter.strokes[2].timestamp + 400)}

----------------------------------------------------------------------------
(* forceComplete *)

\* No character was handed to the canvas twice.
EmittedOnce ==
  \A i, j \in 1..Len(canvasV2.characters) :
    canvasV2.characters[i].id = canvasV2.characters[j].id => i = j

\* Without a candidate no completion timer is live: no timer firing can
\* finalize or emit before the next stroke.
NothingLeftToFire ==
  grouper.currentCharacter = NoCharacter => LiveTimers("completion", 0) = {}

\* A forceComplete call finalizes the candidate, if there is one, in the
\* same step and leaves no completion timer live.
ForcedNow ==
  forced' = forced + 1
  => /\ grouper'.currentCharacter = NoCharacter
     /\ LiveTimers("completion", 0)' = {}
     /\ IF grouper.currentCharacter = NoCharacter
        THEN canvasV2'.characters = canvasV2.characters
        ELSE /\ \E k \in {grouper.currentCharacter.id} : Finalized(k)'
             /\ Len(canvasV2'.characters) = Len(canvasV2.characters) + 1

\* C16: forceComplete finalizes the current candidate immediately and cancels
\* the pending completion timer: after it no timer firing finalizes or emits
\* anything until a new stroke is added, so each candidate is emitted
\* exactly once.
C16_ForceComplete ==
  /\ [][ForcedNow]_vars
  /\ []NothingLeftToFire
  /\ []EmittedOnce

\* The candidate of the first stroke was forced before its timer was due.
C16_Witness ==
  /\ forced = 1 /\ clears = 0 /\ idCounter = 1
  /\ Finalized(1)
  /\ now < grouper.characters[1].lastStrokeTime + 400
  /\ LiveTimers("completion", 0) = {}

----------------------------------------------------------------------------
(* Finalizing without a candidate *)

\* The world with a candidate that holds no stroke.
WithEmptyCandidate(w) ==
  [w EXCEPT !.grouper.currentCharacter = [NoCharacter EXCEPT !.id = w.grouper.nextId]]

\* Finalizing without a candidate, or with one that has no strokes, changes
\* neither the completed list nor anything the callback writes.
NoCandidateNoOp ==
  /\ grouper.currentCharacter = NoCharacter
     => /\ finalizeCurrentCharacter(Current, now) = Current
        /\ forceComplete(Current, now) = Current
  /\ finalizeCurrentCharacter(WithEmptyCandidate(Current), now)
       = [Current EXCEPT !.grouper.currentCharacter = NoCharacter]

\* A second forceComplete right after the first changes nothing more.
ForceTwice ==
  forceComplete(forceComplete(Current, now), now) = forceComplete(Current, now)

\* A forceComplete call without a candidate changes nothing.
ForcedIdle ==
  forced' = forced + 1 /\ grouper.currentCharacter = NoCharacter
  => UNCHANGED <<grouper, canvasV2, pageV2, timeouts>>

\* C17: finalization is idempotent: a timer firing or forceComplete with no
\* candidate (or a candidate without strokes) leaves the completed list
\* unchanged and does not invoke the callback; forceComplete twice in a row
\* has the effect of forceComplete once.
C17_FinalizeIdempotent ==
  /\ []NoCandidateNoOp
  /\ []ForceTwice
  /\ [][ForcedIdle]_vars

\* forceComplete was called when there was no candidate: the only character
\* was finalized by its timer (the expression timer was set at the timer's
\* deadline) and was emitted once.
C17_Witness ==
  /\ forced = 1 /\ clears = 0 /\ idCounter = 1
  /\ Finalized(1)
  /\ canvasV2.expressionTimer = grouper.characters[1].lastStrokeTime + 400 + 1500
  /\ Len(grouper.characters) = 1
  /\ Len(canvasV2.characters) = 1
  /\ pageV2.charCount = 1

----------------------------------------------------------------------------
(* Completed characters stay as they are *)

\* The completed characters of before are still there, in place, with the
\* same strokes and box.
CompletedKept(before, after) ==
  /\ Len(after) >= Len(before)
  /\ \A i \in 1..Len(before) :
       /\ after[i].id = before[i].id
       /\ after[i].strokes = before[i].strokes
       /\ after[i].boundingBox = before[i].boundingBox

\* The current candidate is none of the completed characters, and shares no
\* stroke with them.
CandidateSeparate ==
  \A i \in 1..Len(grouper.characters) :
    /\ grouper.characters[i].isComplete
    /\ grouper.characters[i].id # grouper.currentCharacter.id
    /\ \A j \in 1..Len(grouper.currentCharacter.strokes) :
         ~AbsorbedIn(grouper.currentCharacter.strokes[j], <<grouper.characters[i]>>)

\* C18: a finalized glyph is never reopened: once a character is in the
\* completed list its strokes and bounding box never change under any later
\* addStroke, timer firing or forceComplete; later strokes only extend or
\* create the separate current candidate.
C18_NeverReopened ==
  /\ [][clears' = clears => CompletedKept(grouper.characters, grouper'.characters)]_vars
  /\ []CandidateSeparate

\* A two-stroke character was completed and a later stroke started the next
\* candidate.
C18_Witness ==
  /\ clears = 0
  /\ Len(grouper.characters) = 1
  /\ Len(grouper.characters[1].strokes) = 2
  /\ Len(grouper.currentCharacter.strokes) = 1
  /\ grouper.currentCharacter.strokes[1].timestamp > grouper.characters[1].lastStrokeTime

----------------------------------------------------------------------------
(* Bounding boxes of clusters *)

\* box spans exactly the boxes of the strokes ss (ss not empty).
SpansStrokes(box, ss) ==
  /\ box.minX = SetMin({ss[i].boundingBox.minX : i \in 1..Len(ss)})
  /\ box.minY = SetMin({ss[i].boundingBox.minY : i \in 1..Len(ss)})
  /\ box.maxX = SetMax({ss[i].boundingBox.maxX : i \in 1..Len(ss)})
  /\ box.maxY = SetMax({ss[i].boundingBox.maxY : i \in 1..Len(ss)})

AllSpan(clusters) ==
  \A i \in 1..Len(clusters) :
    Len(clusters[i].strokes) > 0
    /\ SpansStrokes(clusters[i].boundingBox, clusters[i].strokes)

\* C19: in every reachable state each cluster's boundingBox equals the merge
\* of the bounding boxes of exactly its member strokes, on all three paths:
\* the segmenter's candidate and completed characters, the characters of
\* addStrokeToCharacters, and the groups of the group canvas.
C19_BoxIsMergeOfStrokes ==
  /\ grouper.currentCharacter # NoCharacter
     => SpansStrokes(grouper.currentCharacter.boundingBox,
                     grouper.currentCharacter.strokes)
  /\ AllSpan(grouper.characters)
  /\ AllSpan(canvasV2.characters)
  /\ AllSpan(characters)
  /\ AllSpan(groups)

\* A cluster of two strokes whose box is larger than either stroke's box.
Grown(cluster) ==
  /\ Len(cluster.strokes) = 2
  /\ \A j \in 1..2 :
       (cluster.boundingBox.maxX - cluster.boundingBox.minX)
          > (cluster.strokes[j].boundingBox.maxX - cluster.strokes[j].boundingBox.minX)
       \/ (cluster.boundingBox.maxY - cluster.boundingBox.minY)
          > (cluster.strokes[j].boundingBox.maxY - cluster.strokes[j].boundingBox.minY)

C19_Witness == Grown(grouper.currentCharacter)

----------------------------------------------------------------------------
(* Order of the strokes inside a cluster *)

\* Stroke ids are drawn from idCounter, so a smaller id arrived earlier.
ListedByArrival(ss) ==
  \A i, j \in 1..Len(ss) : i < j => ss[i].id < ss[j].id

AllListedByArrival(clusters) ==
  \A i \in 1..Len(clusters) : ListedByArrival(clusters[i].strokes)

SegmenterOrdered ==
  /\ ListedByArrival(grouper.currentCharacter.strokes)
  /\ AllListedByArrival(grouper.characters)
  /\ AllListedByArrival(canvasV2.characters)

GroupsOrdered == AllListedByArrival(groups)

CharactersOrdered == AllListedByArrival(characters)

\* C20: within every cluster the strokes are listed in arrival order, for the
\* segmenter, the group canvas and addStrokeToCharacters (including a stroke
\* that joins several existing characters): an earlier stroke precedes every
\* later stroke of the same cluster.
C20_ArrivalOrder ==
  /\ SegmenterOrdered
  /\ GroupsOrdered
  /\ CharactersOrdered

----------------------------------------------------------------------------
(* Recognition results for clusters that no longer exist *)

\* CharacterGrouper.updateRecognition on the grouper g.
updateRecognition(g, charId, recognized, confidence) ==
  [g EXCEPT !.characters =
     [i \in 1..Len(@) |->
        IF @[i].id = charId /\ i = SetMin({n \in 1..Len(@) : @[n].id = charId})
        THEN [@[i] EXCEPT !.recognizedAs = recognized, !.confidence = confidence]
        ELSE @[i]]]

IdsOf(clusters) == {clusters[i].id : i \in 1..Len(clusters)}

\* The segmenter: an id that was issued and is not a completed character now.
GrouperDropsUnknownId ==
  \A charId \in (1..grouper.nextId) \ IdsOf(grouper.characters) :
    \A outcome \in RecognitionOutcomes :
      updateRecognition(grouper, charId, outcome.label, outcome.confidence) = grouper

\* The per-character canvas: the step that settles batch k changes no
\* character outside the batch and keeps the list of characters as long.
BatchDropsUnknownIds ==
  \A k \in 1..Len(inflight) :
    (inflight' = WithoutBatch(k) /\ Len(inflight') < Len(inflight) /\ clears' = clears)
    => /\ Len(characters') = Len(characters)
       /\ \A i \in 1..Len(characters) :
            characters[i].id \notin IdsOf(inflight[k])
            => characters'[i] = characters[i]

\* The group canvas: the step that answers pending group k, whose id is on
\* the canvas no more, leaves the groups as they are.
GroupResultDropsUnknownId ==
  \A k \in 1..Len(pendingReady) :
    (/\ pendingReady' = SelectSeqIdx(pendingReady, LAMBDA n : n # k)
     /\ Len(pendingReady') < Len(pendingReady)
     /\ pendingReady[k].id \notin IdsOf(groups))
    => groups' = groups

\* C21: a recognition result delivered for a cluster id that no longer
\* exists (cleared, or merged away under a new id) is dropped silently:
\* applying it leaves every cluster unchanged, on the segmenter, on the
\* per-character canvas and on the group canvas.
C21_UnknownIdDropped ==
  /\ []GrouperDropsUnknownId
  /\ [][BatchDropsUnknownIds /\ GroupResultDropsUnknownId]_vars

\* A batch was settled after the last stroke's timer fired and no character
\* took its result: every id of that batch had gone.
C21_Witness ==
  /\ modelReady /\ recognitionTimer = NoTimer /\ ~isProcessing
  /\ inflight # <<>>
  /\ characters # <<>>
  /\ \A i \in 1..Len(characters) : characters[i].recognized = NULL

----------------------------------------------------------------------------
(* Classification of expression texts and writes of the scope *)

\* The text solve was called with in this step, as a set: empty when the
\* step is not a call of solve.
SolvedNow ==
  {text \in SolverTexts :
     evalLog' = Append(evalLog, LogEntry("solve", text, evalLog'[Len(evalLog')].result,
                                         evalLog'[Len(evalLog')].error))}

\* <letter>=<rhs> with a right side that is not made of digits, dots,
\* operators and parentheses only.
IsMalformedAssignment(normalized) ==
  /\ Len(normalized) >= 3
  /\ normalized[1] \in Letters
  /\ normalized[2] = "="
  /\ \E i \in 3..Len(normalized) : normalized[i] \notin ValueChars

MalformedIsInvalid ==
  \A text \in SolvedNow :
    IsMalformedAssignment(normalizeExpression(text))
    => parseExpression(text, globalScope).type = "invalid"

MalformedKeepsScope ==
  \A text \in SolvedNow :
    IsMalformedAssignment(normalizeExpression(text)) => globalScope' = globalScope

\* C22: a malformed assignment, <letter>=<rhs> whose right side is not a pure
\* numeric/operator expression (it names another variable, say), is
\* classified as invalid and evaluating it does not change the scope.
C22_MalformedAssignmentRejected ==
  [][MalformedIsInvalid /\ MalformedKeepsScope]_vars

\* The step is a call of solve on a text that is not classified as an
\* assignment, or a call that ends in an error.
NotASuccessfulAssignment ==
  \E text \in SolvedNow :
    \/ parseExpression(text, globalScope).type # "assignment"
    \/ evalLog'[Len(evalLog')].error # NoError

IsClearStep ==
  /\ Len(evalLog') = Len(evalLog) + 1
  /\ evalLog'[Len(evalLog')].op = "clear"

\* C23: the scope is written only by a successful assignment evaluation and
\* by clear: evaluating a text classified as equation, bare expression or
\* invalid, and any evaluation that ends in an error, leaves the scope
\* exactly as it was.
C23_ScopeWrittenOnlyByAssignment ==
  [][/\ NotASuccessfulAssignment => globalScope' = globalScope
     /\ globalScope' # globalScope
        => IsClearStep \/ (SolvedNow # {} /\ ~NotASuccessfulAssignment)]_vars

----------------------------------------------------------------------------
(* The evaluator boundary *)

NumeralChars == Digits \cup {"-"}

\* sol is a value solve may return: a number text without error, or the
\* placeholder with the text of an error.
IsSolveValue(sol) ==
  /\ sol.result # <<>>
  /\ IF sol.error = NoError
     THEN \A i \in 1..Len(sol.result) : sol.result[i] \in NumeralChars
     ELSE sol.result = <<"?">> /\ Len(sol.error) > 0

\* sol is the placeholder with error.
FailsWith(sol, error) == sol.result = <<"?">> /\ sol.error = error

\* solve on every text of the sessions, against the scope as it is now.
SolveAlwaysReturns ==
  /\ \A text \in SolverTexts : IsSolveValue(solve(text, globalScope))
  /\ FailsWith(solve(<<>>, globalScope), <<"Empty expression">>)
  /\ FailsWith(solve(<<"1", "?", "=">>, globalScope), SyntaxError)
  /\ <<"y">> \notin DOMAIN globalScope
     => FailsWith(solve(<<"y", "+", "3", "=">>, globalScope), UndefinedSymbol(<<"y">>))

\* The step that answers pending group k writes a result on the group: the
\* placeholder when recognition or evaluation failed.
GroupAnswered ==
  \A k \in 1..Len(pendingReady) :
    (/\ pendingReady' = SelectSeqIdx(pendingReady, LAMBDA n : n # k)
     /\ Len(pendingReady') < Len(pendingReady))
    => \A i \in 1..Len(groups) :
         groups[i].id = pendingReady[k].id
         => /\ Len(groups') = Len(groups)
            /\ groups'[i].result # NULL
            /\ groups'[i].result # <<>>
            /\ ~groups'[i].isProcessing

ShowsPlaceholder(g) == g.result # NULL /\ g.result = <<"?">>

\* A canvas showing a placeholder takes the next stroke.
StrokesStillAccepted ==
  ((\E i \in 1..Len(groups) : ShowsPlaceholder(groups[i]))
   /\ drawn < MaxStrokes /\ timeouts = {})
  => \A name \in GroupShapes : \A gap \in GroupGaps : ENABLED finishDrawing(name, gap)

----------------------------------------------------------------------------
(* Texts with unresolved glyphs *)

\* Empty after trimming, or holding a "?" glyph.
IsUnresolvedText(text) ==
  \/ TrimEnd(TrimStart(text)) = <<>>
  \/ \E i \in 1..Len(text) : text[i] = "?"

\* The solver classifies the text solved in this step as invalid and
\* answers with the placeholder and an error, the scope untouched.
SolverShortCircuits ==
  \A text \in SolvedNow :
    IsUnresolvedText(text)
    => /\ parseExpression(text, globalScope).type = "invalid"
       /\ evalLog'[Len(evalLog')].result = <<"?">>
       /\ evalLog'[Len(evalLog')].error # NoError
       /\ globalScope' = globalScope

\* The expression parser gives the same text no result and an error.
ParserShortCircuits ==
  \A text \in SolvedNow :
    IsUnresolvedText(text)
    => /\ parser_evaluateExpression(text).result = NULL
       /\ parser_evaluateExpression(text).error
            \in {<<"Empty expression">>, <<"Unrecognized characters in expression">>}

\* C25: expression text that is empty after trimming or that holds an
\* unresolved "?" glyph is classified as invalid: evaluation is
\* short-circuited with an error, without an evaluation attempt and without
\* a result.
C25_UnresolvedTextIsInvalid ==
  [][SolverShortCircuits /\ ParserShortCircuits]_vars

----------------------------------------------------------------------------
(* Expression layout: double minus, lines and the result anchor *)

\* current and next of mergeDoubleMinusToEquals: horizontalOverlap >
\* minWidth * 0.2 or horizontalCenterDist < maxWidth * 0.8.
isHorizontallyAligned(current, next) ==
  LET horizontalOverlap == Min(current.boundingBox.maxX, next.boundingBox.maxX)
                             - Max(current.boundingBox.minX, next.boundingBox.minX)
      minWidth == Min(current.boundingBox.width, next.boundingBox.width)
      maxWidth == Max(current.boundingBox.width, next.boundingBox.width)
      horizontalCenterDist == Abs(current.boundingBox.centerX - next.boundingBox.centerX)
  IN 5 * horizontalOverlap > minWidth \/ 5 * horizontalCenterDist < 4 * maxWidth

\* verticalGap > 3 and verticalGap < combinedHeight * 6.
isVerticallyStacked(current, next) ==
  LET verticalGap == Abs(current.boundingBox.centerY - next.boundingBox.centerY)
      combinedHeight == current.boundingBox.height + next.boundingBox.height
  IN verticalGap > 3 /\ verticalGap < combinedHeight * 6

\* The glyph pushed for the pair current, next.
MergedEquals(current, next) ==
  [id |-> current.id,
   strokes |-> current.strokes \o next.strokes,
   boundingBox |-> mergeBoundingBoxes(<<current.boundingBox, next.boundingBox>>),
   recognized |-> "=",
   confidence |-> Min(current.confidence, next.confidence)]

\* The while loop of mergeDoubleMinusToEquals from index i.
RECURSIVE MergeLoop(_, _, _)
MergeLoop(sorted, i, result) ==
  IF i > Len(sorted) THEN result
  ELSE IF /\ i + 1 <= Len(sorted)
          /\ sorted[i].recognized = "-" /\ sorted[i + 1].recognized = "-"
          /\ isHorizontallyAligned(sorted[i], sorted[i + 1])
          /\ isVerticallyStacked(sorted[i], sorted[i + 1])
  THEN MergeLoop(sorted, i + 2, Append(result, MergedEquals(sorted[i], sorted[i + 1])))
  ELSE MergeLoop(sorted, i + 1, Append(result, sorted[i]))

mergeDoubleMinusToEquals(chars) ==
  IF Len(chars) < 2 THEN chars
  ELSE MergeLoop(sortCharactersLeftToRight(chars), 1, <<>>)

\* One Expression of the merging buildExpressions.
LineExpression(mergedChars, id) ==
  [id |-> id,
   characters |-> mergedChars,
   boundingBox |-> mergeBoundingBoxes(BoxesOf(mergedChars)),
   text |-> buildExpressionString(mergedChars),
   result |-> IF hasEqualsSign(mergedChars)
              THEN parser_evaluateExpression(buildExpressionString(mergedChars)).result
              ELSE NULL,
   hasEquals |-> hasEqualsSign(mergedChars)]

ExpressionsOfLines(lines, firstId) ==
  [k \in 1..Len(lines) |->
     LineExpression(mergeDoubleMinusToEquals(lines[k]), firstId + k - 1)]

\* buildExpressions with the double-minus merge.
merging_buildExpressions(chars, firstId) ==
  IF Len(chars) = 0 THEN <<>>
  ELSE ExpressionsOfLines(groupIntoLines(chars), firstId)

NoPosition == [x |-> -1, y |-> -1, none |-> TRUE]

FirstEquals(chars) == SetMin({i \in 1..Len(chars) : chars[i].recognized = "="})

\* getResultPosition: null is NoPosition.  An empty result string is falsy.
getResultPosition(expression) ==
  IF ~expression.hasEquals \/ expression.result = NULL \/ expression.result = <<>>
  THEN NoPosition
  ELSE IF ~hasEqualsSign(expression.characters) THEN NoPosition
  ELSE [x |-> expression.characters[FirstEquals(expression.characters)].boundingBox.maxX + 10,
        y |-> expression.characters[FirstEquals(expression.characters)].boundingBox.centerY,
        none |-> FALSE]

\* The recognized glyphs of the layout sessions: box, label, confidence.
Glyph(minX, minY, maxX, maxY, label, confidence) ==
  [boundingBox |-> MakeBox(minX, minY, maxX, maxY), recognized |-> label,
   confidence |-> confidence]

Glyphs ==
  [dashTop  |-> Glyph(0, 20, 40, 22, "-", 90),
   dashLow  |-> Glyph(0, 50, 40, 52, "-", 80),
   thickTop |-> Glyph(0, 20, 40, 40, "-", 90),
   thickLow |-> Glyph(2, 30, 42, 50, "-", 80),
   one      |-> Glyph(60, 16, 70, 56, "1", 90),
   eq       |-> Glyph(100, 24, 130, 44, "=", 85),
   eq2      |-> Glyph(160, 24, 190, 44, "=", 70),
   lowOne   |-> Glyph(60, 100, 70, 140, "1", 90)]

GlyphNames == DOMAIN Glyphs

MaxGlyphs == 3

\* The k-th character of a session drawing names: id 2k, its stroke id 2k - 1.
GlyphCharacter(name, k) ==
  [id |-> 2 * k,
   strokes |-> <<[id |-> 2 * k - 1, points |-> <<>>,
                  boundingBox |-> Glyphs[name].boundingBox]>>,
   boundingBox |-> Glyphs[name].boundingBox,
   recognized |-> Glyphs[name].recognized,
   confidence |-> Glyphs[name].confidence]

InitLayout ==
  /\ now = 0
  /\ idCounter = 0
  /\ drawn = 0
  /\ clears = 0
  /\ strokes = <<>>
  /\ characters = <<>>
  /\ expressions = <<>>
  /\ isProcessing = FALSE
  /\ recognitionTimer = NoTimer
  /\ inflight = <<>>
  /\ modelReady = FALSE
  /\ groups = <<>>
  /\ debounceTimer = <<>>
  /\ pendingReady = <<>>
  /\ globalScope = <<>>
  /\ evalLog = <<>>
  /\ inStrokes = <<>>
  /\ outCharacters = <<>>
  /\ pairTested = <<>>
  /\ GrouperUnused
  /\ \E n \in 0..MaxGlyphs : \E names \in [1..n -> GlyphNames] :
       /\ \A i, j \in 1..n : i # j => names[i] # names[j]
       /\ inCharacters = [k \in 1..n |-> GlyphCharacter(names[k], k)]
  /\ outLayout = NoLayout
  /\ RecognizerUnused
  /\ BoxesUnused
  /\ LoadUnused

Returned(by, lines, exprs, positions) ==
  [by |-> by, lines |-> lines, expressions |-> exprs, positions |-> positions]

LayoutFrame ==
  /\ UNCHANGED inCharacters
  /\ UNCHANGED <<inputVars, charVars, groupVars, solverVars, clusterVars, grouperVars,
                 recognizerVars, boxVars, loadVars, timeouts>>

GroupIntoLines ==
  /\ outLayout' = Returned("groupIntoLines", groupIntoLines(inCharacters), <<>>, <<>>)
  /\ LayoutFrame

\* The line passed is the whole input.
MergeDoubleMinus ==
  /\ outLayout' = Returned("mergeDoubleMinusToEquals",
                           <<mergeDoubleMinusToEquals(inCharacters)>>, <<>>, <<>>)
  /\ LayoutFrame

PositionsOf(exprs) == [k \in 1..Len(exprs) |-> getResultPosition(exprs[k])]

\* buildExpressions, and getResultPosition of every expression it returned.
BuildExpressions ==
  /\ \E exprs \in {merging_buildExpressions(inCharacters, 2 * Len(inCharacters) + 1)} :
       outLayout' = Returned("buildExpressions", <<>>, exprs, PositionsOf(exprs))
  /\ LayoutFrame

NextLayout ==
  \/ GroupIntoLines
  \/ MergeDoubleMinus
  \/ BuildExpressions

SpecLayout == InitLayout /\ [][NextLayout]_vars

----------------------------------------------------------------------------
(* Claims about the expression layout *)

\* Two glyphs recognized as "-", stacked with at least 50% horizontal
\* overlap and a vertical gap (distance of the vertical centres) of 5 to 40.
StackedDashes(a, b) ==
  /\ a.recognized = "-" /\ b.recognized = "-"
  /\ 2 * (Min(a.boundingBox.maxX, b.boundingBox.maxX)
            - Max(a.boundingBox.minX, b.boundingBox.minX))
       >= Min(a.boundingBox.width, b.boundingBox.width)
  /\ Abs(a.boundingBox.centerY - b.boundingBox.centerY) >= 5
  /\ Abs(a.boundingBox.centerY - b.boundingBox.centerY) <= 40

\* glyph is the "=" made of a and b.
IsEqualsOf(glyph, a, b) ==
  /\ glyph.recognized = "="
  /\ SpansStrokes(glyph.boundingBox, a.strokes \o b.strokes)
  /\ Range(glyph.strokes) = Range(a.strokes) \cup Range(b.strokes)
  /\ Len(glyph.strokes) = Len(a.strokes) + Len(b.strokes)
  /\ glyph.confidence = Min(a.confidence, b.confidence)

InputIsStackedDashes ==
  Len(inCharacters) = 2 /\ StackedDashes(inCharacters[1], inCharacters[2])

MergeGivesEquals ==
  (outLayout.by = "mergeDoubleMinusToEquals" /\ InputIsStackedDashes)
  => /\ Len(outLayout.lines[1]) = 1
     /\ IsEqualsOf(outLayout.lines[1][1], inCharacters[1], inCharacters[2])

BuildGivesEquals ==
  (outLayout.by = "buildExpressions" /\ InputIsStackedDashes)
  => /\ Len(outLayout.expressions) = 1
     /\ Len(outLayout.expressions[1].characters) = 1
     /\ IsEqualsOf(outLayout.expressions[1].characters[1],
                   inCharacters[1], inCharacters[2])

\* C26: two glyphs recognized as "-", stacked vertically with at least 50%
\* horizontal overlap and a vertical gap of 5 to 40 px, are replaced by one
\* glyph recognized as "=" whose box is the merge of the two boxes, whose
\* strokes are the union of both and whose confidence is the smaller one;
\* also for a line of only those two glyphs passed through buildExpressions.
C26_DoubleMinusBecomesEquals == MergeGivesEquals /\ BuildGivesEquals

\* The boxes overlap vertically by more than 0.3 of the shorter height.
OverlapVertically(a, b) ==
  /\ Min(a.maxY - a.minY, b.maxY - b.minY) > 0
  /\ 10 * (Min(a.maxY, b.maxY) - Max(a.minY, b.minY))
       > 3 * Min(a.maxY - a.minY, b.maxY - b.minY)

\* The places (line, position) of glyph c in lines.
PlacesOf(lines, c) ==
  {p \in (1..Len(lines)) \X (1..MaxGlyphs) :
     p[2] <= Len(lines[p[1]]) /\ lines[p[1]][p[2]] = c}

LineOf(lines, c) == (CHOOSE p \in PlacesOf(lines, c) : TRUE)[1]

\* lines is a partition of chars into non-empty lines.
PartitionsIntoLines(lines, chars) ==
  /\ \A k \in 1..Len(lines) : Len(lines[k]) > 0
  /\ \A i \in 1..Len(chars) : Cardinality(PlacesOf(lines, chars[i])) = 1
  /\ \A k \in 1..Len(lines) : Range(lines[k]) \subseteq Range(chars)

\* visited is chars in order of vertical centre.  The first glyph opens
\* line 1; a later glyph stays on the line of the glyph before it iff it
\* overlaps a glyph visited earlier on that line, and opens the next line
\* otherwise.
LinesFollowVisits(lines, visited) ==
  /\ Len(visited) = 0 => lines = <<>>
  /\ Len(visited) > 0 => LineOf(lines, visited[1]) = 1
  /\ \A i \in 2..Len(visited) :
       LineOf(lines, visited[i]) =
         IF \E j \in 1..(i - 1) :
               /\ LineOf(lines, visited[j]) = LineOf(lines, visited[i - 1])
               /\ OverlapVertically(visited[i].boundingBox, visited[j].boundingBox)
         THEN LineOf(lines, visited[i - 1])
         ELSE LineOf(lines, visited[i - 1]) + 1

LeftToRight(line) ==
  \A p, q \in 1..Len(line) :
    p < q => line[p].boundingBox.centerX <= line[q].boundingBox.centerX

InVisitOrder(visited, chars) ==
  /\ Len(visited) = Len(chars) /\ Range(visited) = Range(chars)
  /\ \A p, q \in 1..Len(visited) :
       p < q => visited[p].boundingBox.centerY <= visited[q].boundingBox.centerY

\* C27: groupIntoLines returns a partition of the input glyphs into lines;
\* the glyphs are visited in order of vertical centre, a glyph joins the
\* current line iff it vertically overlaps (more than 0.3 of the shorter
\* height) the last accepted glyph or any glyph of the current line,
\* otherwise the line is closed and a new one started; the lines come in
\* that order and each line is sorted by nondecreasing horizontal centre.
C27_LineGrouping ==
  outLayout.by = "groupIntoLines"
  => /\ PartitionsIntoLines(outLayout.lines, inCharacters)
     /\ \E visited \in {SortByKey(inCharacters, LAMBDA c : c.boundingBox.centerY)} :
          /\ InVisitOrder(visited, inCharacters)
          /\ LinesFollowVisits(outLayout.lines, visited)
     /\ \A k \in 1..Len(outLayout.lines) : LeftToRight(outLayout.lines[k])

\* Three glyphs on one line, the last of them taken for its overlap with
\* the first one visited, not with the one before it, and listed left to
\* right in another order than drawn.
C27_Witness ==
  /\ outLayout.by = "groupIntoLines"
  /\ Len(inCharacters) = 3 /\ Len(outLayout.lines) = 1
  /\ outLayout.lines[1] # inCharacters
  /\ \E a, b, c \in Range(inCharacters) :
       /\ a.boundingBox.centerY < b.boundingBox.centerY
       /\ b.boundingBox.centerY < c.boundingBox.centerY
       /\ OverlapVertically(c.boundingBox, a.boundingBox)
       /\ ~OverlapVertically(c.boundingBox, b.boundingBox)

\* The glyphs of expression recognized as "=".
EqualsGlyphs(expression) ==
  {c \in Range(expression.characters) : c.recognized = "="}

\* g is the rightmost of the glyphs gs.
IsRightmost(g, gs) ==
  g \in gs /\ \A other \in gs : other.boundingBox.maxX <= g.boundingBox.maxX

\* position is the anchor the claim gives for expression.
IsClaimedAnchor(position, expression) ==
  IF EqualsGlyphs(expression) = {} \/ expression.result = NULL
  THEN position = NoPosition
  ELSE \E g \in EqualsGlyphs(expression) :
         /\ IsRightmost(g, EqualsGlyphs(expression))
         /\ ~position.none
         /\ position.x = g.boundingBox.maxX + 10
         /\ position.y = g.boundingBox.minY + (g.boundingBox.maxY - g.boundingBox.minY) \div 2

\* C28: the result anchor of an expression is immediately to the right of
\* the rightmost glyph recognized as "=" and vertically centred on that
\* glyph's box; with several "=" glyphs on a line the rightmost is used, and
\* there is no anchor when the expression has no equals sign or no result.
C28_AnchorAtRightmostEquals ==
  outLayout.by = "buildExpressions"
  => \A k \in 1..Len(outLayout.expressions) :
       IsClaimedAnchor(outLayout.positions[k], outLayout.expressions[k])

----------------------------------------------------------------------------
(* The pairwise grouping predicate *)

\* Pixels the boxes share on each axis (negative: the space between them).
SharedX(b1, b2) == Min(b1.maxX, b2.maxX) - Max(b1.minX, b2.minX)
SharedY(b1, b2) == Min(b1.maxY, b2.maxY) - Max(b1.minY, b2.minY)

\* The boxes cross: they meet on both axes.
BoxesCross(b1, b2) == SharedX(b1, b2) >= 0 /\ SharedY(b1, b2) >= 0

\* Both strokes are wide, one above the other, with at least 50% horizontal
\* overlap.
StackedWide(b1, b2) ==
  /\ b1.width > b1.height /\ b2.width > b2.height
  /\ SharedY(b1, b2) < 0
  /\ 2 * SharedX(b1, b2) >= Min(b1.width, b2.width)

\* More than 5 px shared on both axes and drawn within 500 ms.
OverlapInTime(s1, s2) ==
  /\ SharedX(s1.boundingBox, s2.boundingBox) > 5
  /\ SharedY(s1.boundingBox, s2.boundingBox) > 5
  /\ Abs(FirstTimestamp(s2) - LastTimestamp(s1)) <= 500

MayBeGrouped(s1, s2) ==
  \/ BoxesCross(s1.boundingBox, s2.boundingBox)
  \/ StackedWide(s1.boundingBox, s2.boundingBox)
  \/ OverlapInTime(s1, s2)

\* C29: the pairwise grouping predicate is conservative: it holds only if
\* the boxes cross, or both strokes are wide and vertically stacked with at
\* least 50% horizontal overlap, or the strokes overlap by more than 5 px on
\* both axes and were drawn within 500 ms; strokes without pixel overlap that
\* neither cross nor are stacked dashes are never grouped for being near
\* each other and drawn in quick succession.
C29_GroupingIsConservative ==
  pairTested.grouped
  => MayBeGrouped(inStrokes[pairTested.first], inStrokes[pairTested.second])

----------------------------------------------------------------------------
(* The character recognizer (lib/recognizer.ts) *)

\* Confidences are percentages: 0.85 is 85, 0.1 is 10.

\* The class labels of the model, index 0 first.
MODEL_LABELS ==
  <<"0", "1", "2", "3", "4", "5", "6", "7", "8", "9",
    DivideSign, "(", "-", "+", ")", "/", TimesSign>>

LETTER_TO_SYMBOL(label) ==
  CASE label = "X" -> "*"
    [] label = "x" -> "*"
    [] label = DivideSign -> "/"
    [] label = TimesSign -> "*"
    [] OTHER -> label

\* A recognizer's answer; null is an answer with no label.
Answer(label, confidence) == [label |-> label, confidence |-> confidence]
NoAnswer == Answer(NULL, 0)

\* |last.x - first.x| and |last.y - first.y| of a stroke of two points or more.
SweepX(stroke) == Abs(stroke.points[Len(stroke.points)].x - stroke.points[1].x)
SweepY(stroke) == Abs(stroke.points[Len(stroke.points)].y - stroke.points[1].y)

\* The flags the loop of recognizeWithRules sets; strokes of fewer than two
\* points are skipped.
hasHorizontal(character) ==
  \E i \in 1..Len(character.strokes) :
     /\ Len(character.strokes[i].points) >= 2
     /\ SweepX(character.strokes[i]) > SweepY(character.strokes[i]) * 2

hasVertical(character) ==
  \E i \in 1..Len(character.strokes) :
     /\ Len(character.strokes[i].points) >= 2
     /\ ~(SweepX(character.strokes[i]) > SweepY(character.strokes[i]) * 2)
     /\ SweepY(character.strokes[i]) > SweepX(character.strokes[i]) * 2

hasDiagonal(character) ==
  \E i \in 1..Len(character.strokes) :
     /\ Len(character.strokes[i].points) >= 2
     /\ ~(SweepX(character.strokes[i]) > SweepY(character.strokes[i]) * 2)
     /\ ~(SweepY(character.strokes[i]) > SweepX(character.strokes[i]) * 2)
     /\ SweepX(character.strokes[i]) > 5
     /\ SweepY(character.strokes[i]) > 5

\* aspectRatio = bbox.width / Math.max(bbox.height, 1) exceeds num / den.
AspectAbove(character, num, den) ==
  den * character.boundingBox.width > num * Max(character.boundingBox.height, 1)

\* The rule-based fallback.
recognizeWithRules(character) ==
  LET numStrokes == Len(character.strokes)
      h == hasHorizontal(character)
      v == hasVertical(character)
      d == hasDiagonal(character)
  IN IF numStrokes = 2 /\ h /\ ~v /\ AspectAbove(character, 3, 2) THEN Answer("=", 80)
     ELSE IF numStrokes = 2 /\ h /\ v THEN Answer("+", 75)
     ELSE IF numStrokes = 1 /\ h /\ ~v /\ AspectAbove(character, 2, 1) THEN Answer("-", 70)
     ELSE IF numStrokes = 1 /\ d /\ ~h /\ ~v THEN Answer("/", 60)
     ELSE IF numStrokes = 2 /\ d /\ ~h /\ ~v THEN Answer(TimesSign, 60)
     ELSE Answer("?", 10)

\* Two flat strokes, one above the other, in a wide box.
isEqualsSign(character) ==
  /\ Len(character.strokes) = 2
  /\ ~(5 * character.boundingBox.width < 6 * Max(character.boundingBox.height, 1))
  /\ \A i \in 1..2 :
        /\ Len(character.strokes[i].points) >= 2
        /\ ~(2 * SweepY(character.strokes[i]) > SweepX(character.strokes[i]))
  /\ \E gap2 \in {Abs((character.strokes[1].boundingBox.minY
                         + character.strokes[1].boundingBox.maxY)
                      - (character.strokes[2].boundingBox.minY
                         + character.strokes[2].boundingBox.maxY))} :
        \* twice verticalGap, to stay in the integers
        gap2 >= 10 /\ gap2 <= 2 * character.boundingBox.height

\* A "1" drawn as one slanted stroke is a "/".  The angle of the stroke lies
\* in (100, 170) or (-80, -10) degrees: it rises to the right with a slope
\* between tan 10 = 0.1763 and tan 80 = 5.671.
isActuallySlash(character, predictedLabel) ==
  /\ predictedLabel = "1"
  /\ Len(character.strokes) = 1
  /\ Len(character.strokes[1].points) >= 3
  /\ LET pts == character.strokes[1].points
         dx == pts[Len(pts)].x - pts[1].x
         dy == pts[Len(pts)].y - pts[1].y
     IN /\ dx * dy < 0
        /\ 10000 * Abs(dy) > 1763 * Abs(dx)
        /\ 1000 * Abs(dy) < 5671 * Abs(dx)
        /\ AspectAbove(character, 1, 5)
        /\ 5 * character.boundingBox.width < 4 * Max(character.boundingBox.height, 1)
        /\ 4 * Abs(dx) > Abs(dy)

\* What the OCR worker reads off a canvas: it throws, or gives a text and a
\* confidence.
OcrReadings ==
  {[failed |-> TRUE, text |-> <<>>, confidence |-> 0]}
    \cup {[failed |-> FALSE, text |-> t, confidence |-> c] :
            t \in {<<>>, <<"1">>, <<"7">>, <<"1", "2">>}, c \in {20, 90}}

\* What the model predicts for an image: inference throws, or gives the
\* class of the largest probability and that probability.
ModelReadings ==
  {[failed |-> TRUE, maxIdx |-> 0, maxProb |-> 0]}
    \cup {[failed |-> FALSE, maxIdx |-> k, maxProb |-> p] :
            k \in {1, 7, 16, 17}, p \in {60, 95}}

\* What the libraries do during one call: whether the OCR worker and the
\* model load, and what they read.
Environments ==
  [workerLoads : BOOLEAN, modelLoads : BOOLEAN, ocr : OcrReadings, ml : ModelReadings]

\* initTesseract has a worker after the call.
WorkerAfter(rec, env) == rec.tesseractWorker \/ env.workerLoads

\* recognizeWithTesseract: null when there is no worker, when the worker
\* throws, and when the text is not one character read with confidence
\* above 0.3.
recognizeWithTesseract(rec, env) ==
  IF ~WorkerAfter(rec, env) THEN NoAnswer
  ELSE IF env.ocr.failed THEN NoAnswer
  ELSE IF Len(env.ocr.text) = 1 /\ env.ocr.confidence > 30
  THEN Answer(env.ocr.text[1], env.ocr.confidence)
  ELSE NoAnswer

\* initializeModel: true with a model loaded before or now; never again
\* after a failed load.
ModelAfter(rec, env) == rec.model \/ (~rec.modelLoadFailed /\ env.modelLoads)

\* The label of the model's class, post-processed.
ModelLabel(character, maxIdx) ==
  LET label == IF maxIdx + 1 <= Len(MODEL_LABELS) THEN MODEL_LABELS[maxIdx + 1] ELSE "?"
  IN LETTER_TO_SYMBOL(IF isActuallySlash(character, label) THEN "/" ELSE label)

\* The Tesseract branch of recognizeCharacter.
RecognizedByOcr(character, ocrResult) ==
  IF ocrResult.label # NULL
  THEN [settled |-> "fulfilled", by |-> "recognizeWithTesseract",
        label |-> IF isActuallySlash(character, ocrResult.label) THEN "/"
                  ELSE ocrResult.label,
        confidence |-> ocrResult.confidence, primaryFailed |-> FALSE]
  ELSE [settled |-> "fulfilled", by |-> "recognizeWithRules",
        label |-> recognizeWithRules(character).label,
        confidence |-> recognizeWithRules(character).confidence,
        primaryFailed |-> TRUE]

\* The model branch of recognizeCharacter; ocrResult is the second opinion
\* asked for a "7", "2" or "9" of probability under 0.8.
RecognizedByModel(character, rec, env, label, ocrResult) ==
  IF ModelAfter(rec, env) /\ ~env.ml.failed
  THEN IF /\ label \in {"7", "2", "9"}
          /\ env.ml.maxProb < 80
          /\ ocrResult.label # NULL
          /\ ocrResult.label # label
       THEN [settled |-> "fulfilled", by |-> "recognizeWithTesseract",
             label |-> ocrResult.label, confidence |-> ocrResult.confidence,
             primaryFailed |-> FALSE]
       ELSE [settled |-> "fulfilled", by |-> "model", label |-> label,
             confidence |-> env.ml.maxProb, primaryFailed |-> FALSE]
  ELSE [settled |-> "fulfilled", by |-> "recognizeWithRules",
        label |-> recognizeWithRules(character).label,
        confidence |-> recognizeWithRules(character).confidence,
        primaryFailed |-> TRUE]

\* recognizeCharacter: how the promise settles.  Every await of the function
\* is on a call that catches its own failures or stands inside the try.
recognizeCharacter(character, rec, env) ==
  IF isEqualsSign(character)
  THEN [settled |-> "fulfilled", by |-> "isEqualsSign", label |-> "=",
        confidence |-> 85, primaryFailed |-> FALSE]
  ELSE IF rec.useTesseract
  THEN RecognizedByOcr(character, recognizeWithTesseract(rec, env))
  ELSE RecognizedByModel(character, rec, env, ModelLabel(character, env.ml.maxIdx),
                         recognizeWithTesseract(rec, env))

\* The module variables after recognizeCharacter.
RecognizerAfter(character, rec, env) ==
  IF isEqualsSign(character) THEN rec
  ELSE IF rec.useTesseract
  THEN [rec EXCEPT !.tesseractWorker = WorkerAfter(rec, env)]
  ELSE [rec EXCEPT
          !.model = ModelAfter(rec, env),
          !.modelLoadFailed = rec.modelLoadFailed \/ ~ModelAfter(rec, env),
          !.modelLoadPromise = IF rec.model \/ rec.modelLoadFailed
                               THEN rec.modelLoadPromise ELSE "resolved",
          !.tesseractWorker =
             IF /\ ModelAfter(rec, env)
                /\ ~env.ml.failed
                /\ ModelLabel(character, env.ml.maxIdx) \in {"7", "2", "9"}
                /\ env.ml.maxProb < 80
             THEN WorkerAfter(rec, env)
             ELSE rec.tesseractWorker]

\* The characters handed to the recognizer, by the strokes drawn.
Drawings ==
  [tap    |-> <<Shapes.tap>>,
   bar    |-> <<Shapes.bar>>,
   stem   |-> <<Shapes.stem>>,
   plus   |-> <<Shapes.bar, Shapes.stem>>,
   equals |-> <<Shapes.bar, <<Pt(0, 30), Pt(40, 30)>>>>,
   slash  |-> <<<<Pt(8, 40), Pt(14, 20), Pt(20, 0)>>>>]

DrawingNames == DOMAIN Drawings

DrawnCharacter(name) ==
  LET ss == [k \in 1..Len(Drawings[name]) |->
               [id |-> k, points |-> Drawings[name][k],
                boundingBox |-> calculateBoundingBox(Drawings[name][k])]]
  IN [id |-> Len(ss) + 1, strokes |-> ss,
      boundingBox |-> mergeBoundingBoxes(BoxesOf(ss)),
      recognized |-> NULL, confidence |-> 0]

RecognizerFrame ==
  UNCHANGED <<inputVars, charVars, groupVars, solverVars, clusterVars, layoutVars,
              boxVars, loadVars, grouperVars, timeouts>>

\* setUseTesseract(enabled): enabling starts the OCR worker.
SetUseTesseract(enabled, loads) ==
  /\ recognizer' =
       [recognizer EXCEPT
          !.useTesseract = enabled,
          !.tesseractWorker = recognizer.tesseractWorker \/ (enabled /\ loads)]
  /\ UNCHANGED outRecognition
  /\ RecognizerFrame

\* The settled call, with the character it was made for.
SettledFor(name, r) ==
  [settled |-> r.settled, character |-> name, by |-> r.by, label |-> r.label,
   confidence |-> r.confidence, primaryFailed |-> r.primaryFailed]

RecognizeCharacter(name, env) ==
  /\ outRecognition' =
       SettledFor(name, recognizeCharacter(DrawnCharacter(name), recognizer, env))
  /\ recognizer' = RecognizerAfter(DrawnCharacter(name), recognizer, env)
  /\ RecognizerFrame

InitRecognizer ==
  /\ now = 0
  /\ idCounter = 0
  /\ drawn = 0
  /\ clears = 0
  /\ strokes = <<>>
  /\ characters = <<>>
  /\ expressions = <<>>
  /\ isProcessing = FALSE
  /\ recognitionTimer = NoTimer
  /\ inflight = <<>>
  /\ modelReady = FALSE
  /\ groups = <<>>
  /\ debounceTimer = <<>>
  /\ pendingReady = <<>>
  /\ globalScope = <<>>
  /\ evalLog = <<>>
  /\ inStrokes = <<>>
  /\ outCharacters = <<>>
  /\ pairTested = <<>>
  /\ GrouperUnused
  /\ LayoutUnused
  /\ RecognizerUnused
  /\ BoxesUnused
  /\ LoadUnused

NextRecognizer ==
  \/ \E enabled, loads \in BOOLEAN : SetUseTesseract(enabled, loads)
  \/ \E name \in DrawingNames : \E env \in Environments : RecognizeCharacter(name, env)

SpecRecognizer == InitRecognizer /\ [][NextRecognizer]_vars

----------------------------------------------------------------------------
(* Claims about the recognizer *)

\* The call settled by the fallback exactly when its primary recognizer
\* (the OCR worker in Tesseract mode, the model otherwise) gave no answer.
FellBack == outRecognition.primaryFailed => outRecognition.by = "recognizeWithRules"

\* C30: a recognizeCharacter call always resolves: when the primary
\* recognizer fails (the model does not load, inference throws, the OCR
\* worker fails) the call falls back to the secondary recognizer and does not
\* reject, and a glyph no recognizer identifies is reported as label "?"
\* with confidence 0.
C30_RecognitionAlwaysResolves ==
  outRecognition.settled # "none" =>
    /\ outRecognition.settled = "fulfilled"
    /\ FellBack
    /\ (outRecognition.label = "?" => outRecognition.confidence = 0)

----------------------------------------------------------------------------
(* Bounding-box merge (lib/geometry.ts and lib/stroke-utils.ts) *)

\* The coordinates of the points the boxes are computed from; they are
\* even, so that the centers are integers.
BoxCoords == {0, 10, 40}

\* The point lists a box is computed from: the two ends of a stroke.
BoxPoints ==
  {<<Pt(x1, y1), Pt(x2, y2)>> :
     x1 \in BoxCoords, x2 \in {0, 40}, y1 \in BoxCoords, y2 \in {10}}

\* The merges made of the boxes a, b, c: merge(a,b), merge(b,a),
\* merge(merge(a,b),c), merge(a,merge(b,c)) and merge(a,a).
Merges(by, a, ab, ba, abThenC, aThenBc, aa) ==
  [by |-> by,
   merged |-> [a |-> a, ab |-> ab, ba |-> ba, abThenC |-> abThenC,
               aThenBc |-> aThenBc, aa |-> aa]]

BoxFrame ==
  /\ UNCHANGED inBoxes
  /\ UNCHANGED <<inputVars, charVars, groupVars, solverVars, clusterVars, layoutVars,
                 recognizerVars, loadVars, grouperVars, timeouts>>

\* mergeBoundingBoxes of lib/geometry.ts on the boxes calculateBoundingBox
\* gives for the three point lists.
MergeGeometry ==
  /\ \E a \in {calculateBoundingBox(inBoxes[1])} :
     \E b \in {calculateBoundingBox(inBoxes[2])} :
     \E c \in {calculateBoundingBox(inBoxes[3])} :
       outBoxes' =
         Merges("geometry", a,
                mergeBoundingBoxes(<<a, b>>),
                mergeBoundingBoxes(<<b, a>>),
                mergeBoundingBoxes(<<mergeBoundingBoxes(<<a, b>>), c>>),
                mergeBoundingBoxes(<<a, mergeBoundingBoxes(<<b, c>>)>>),
                mergeBoundingBoxes(<<a, a>>))
  /\ BoxFrame

\* mergeBoundingBoxes of lib/stroke-utils.ts on the boxes its
\* calculateBoundingBox gives for the three point lists.
MergeUtils ==
  /\ \E a \in {utils_calculateBoundingBox(inBoxes[1])} :
     \E b \in {utils_calculateBoundingBox(inBoxes[2])} :
     \E c \in {utils_calculateBoundingBox(inBoxes[3])} :
       outBoxes' =
         Merges("stroke-utils", a,
                utils_mergeBoundingBoxes(a, b),
                utils_mergeBoundingBoxes(b, a),
                utils_mergeBoundingBoxes(utils_mergeBoundingBoxes(a, b), c),
                utils_mergeBoundingBoxes(a, utils_mergeBoundingBoxes(b, c)),
                utils_mergeBoundingBoxes(a, a))
  /\ BoxFrame

InitBoxes ==
  /\ now = 0
  /\ idCounter = 0
  /\ drawn = 0
  /\ clears = 0
  /\ strokes = <<>>
  /\ characters = <<>>
  /\ expressions = <<>>
  /\ isProcessing = FALSE
  /\ recognitionTimer = NoTimer
  /\ inflight = <<>>
  /\ modelReady = FALSE
  /\ groups = <<>>
  /\ debounceTimer = <<>>
  /\ pendingReady = <<>>
  /\ globalScope = <<>>
  /\ evalLog = <<>>
  /\ inStrokes = <<>>
  /\ outCharacters = <<>>
  /\ pairTested = <<>>
  /\ GrouperUnused
  /\ LayoutUnused
  /\ RecognizerUnused
  /\ inBoxes \in [1..3 -> BoxPoints]
  /\ outBoxes = NoBoxes
  /\ LoadUnused

NextBoxes ==
  \/ MergeGeometry
  \/ MergeUtils

SpecBoxes == InitBoxes /\ [][NextBoxes]_vars

----------------------------------------------------------------------------
(* Claims about the bounding-box merge *)

\* width = maxX - minX, height = maxY - minY, and the centers are the
\* midpoints of the sides.
KeepsDerivedFields(box) ==
  /\ box.width = box.maxX - box.minX
  /\ box.height = box.maxY - box.minY
  /\ 2 * box.centerX = box.minX + box.maxX
  /\ 2 * box.centerY = box.minY + box.maxY

\* C31: the bounding-box merge is commutative, associative and idempotent:
\* merge(a,b) = merge(b,a), merge(merge(a,b),c) = merge(a,merge(b,c)) and
\* merge(a,a) = a for all boxes a, b, c, and the merged box of lib/geometry.ts
\* keeps width = maxX - minX, height = maxY - minY and its centers at the
\* midpoints.
C31_MergeIsSemilattice ==
  outBoxes.by # "none" =>
    /\ outBoxes.merged.ab = outBoxes.merged.ba
    /\ outBoxes.merged.abThenC = outBoxes.merged.aThenBc
    /\ outBoxes.merged.aa = outBoxes.merged.a
    /\ (outBoxes.by = "geometry" =>
          /\ KeepsDerivedFields(outBoxes.merged.ab)
          /\ KeepsDerivedFields(outBoxes.merged.abThenC)
          /\ KeepsDerivedFields(outBoxes.merged.aa))

\* Three different boxes were merged by lib/geometry.ts and every merge is
\* larger than the box it started from.
C31_Witness ==
  /\ outBoxes.by = "geometry"
  /\ outBoxes.merged.ab # outBoxes.merged.a
  /\ outBoxes.merged.abThenC # outBoxes.merged.ab
  /\ outBoxes.merged.ab # calculateBoundingBox(inBoxes[2])
  /\ outBoxes.merged.abThenC # calculateBoundingBox(inBoxes[3])

----------------------------------------------------------------------------
(* Claims about equation evaluation *)

\* The solve call logged at i was given text and answered result, no error.
Answers(i, text, result) ==
  (evalLog[i].op = "solve" /\ evalLog[i].text = text) =>
    (evalLog[i].result = result /\ evalLog[i].error = NoError)

\* C32: a text ending in "=" is evaluated up to the "=" after the times
\* sign is mapped to * and the division sign to /: "2+2=" yields "4",
\* "5x3=" (times sign) yields "15" and "8/2=" (division sign) yields "4",
\* each with no error and with no decimal part in the result.
C32_EquationsEvaluate ==
  \A i \in 1..Len(evalLog) :
     /\ Answers(i, <<"2", "+", "2", "=">>, <<"4">>)
     /\ Answers(i, <<"5", TimesSign, "3", "=">>, <<"1", "5">>)
     /\ Answers(i, <<"8", DivideSign, "2", "=">>, <<"4">>)

\* The three equations were solved one after another, with variables
\* assigned or not in between.
C32_Witness ==
  /\ Len(evalLog) = 3
  /\ evalLog[1].text = <<"5", TimesSign, "3", "=">>
  /\ evalLog[2].text = <<"8", DivideSign, "2", "=">>
  /\ evalLog[3].text = <<"2", "+", "2", "=">>
  /\ \A i \in 1..3 : evalLog[i].op = "solve"

----------------------------------------------------------------------------
(* Claims about a clear during recognition *)

\* The step answers pending recognition k, started for a group that a clear
\* has removed since.
AnswersCleared(k) ==
  /\ pendingReady' = SelectSeqIdx(pendingReady, LAMBDA n : n # k)
  /\ Len(pendingReady') < Len(pendingReady)
  /\ clears > 0
  /\ pendingReady[k].id \notin IdsOf(groups)

\* C33: when a clear (clearCanvas and clearScope) happens while a group's
\* recognition is in flight, the completion of that recognition writes
\* nothing: the variable scope stays as the clear left it and no group gains
\* a result.
C33_ClearedCompletionWritesNothing ==
  [][\A k \in 1..Len(pendingReady) :
       AnswersCleared(k) => (globalScope' = globalScope /\ groups' = groups)]_vars

----------------------------------------------------------------------------
(* Claims relating the incremental and the batch clustering *)

\* The partition of the strokes a list of characters stands for.
PartitionOf(chars) ==
  {{chars[i].strokes[k].id : k \in 1..Len(chars[i].strokes)} : i \in 1..Len(chars)}

\* C34: incremental and batch pairwise clustering agree: folding
\* addStrokeToCharacters over a stroke list in its order, starting from no
\* characters, gives the same partition of the strokes into characters as
\* groupStrokesIntoCharacters applied to the whole list.
C34_IncrementalAgreesWithBatch ==
  /\ outCharacters.by = "addStrokeToCharacters" =>
       PartitionOf(outCharacters.characters)
         = PartitionOf(groupStrokesIntoCharacters(inStrokes, Len(inStrokes) + 1))
  /\ outCharacters.by = "groupStrokesIntoCharacters" =>
       PartitionOf(outCharacters.characters)
         = PartitionOf(AddEachLoop(<<>>, inStrokes, 1, Len(inStrokes) + 1))

\* The fold merged two characters: the first two strokes are not grouped
\* with each other and the third is grouped with both.
C34_Witness ==
  /\ outCharacters.by = "addStrokeToCharacters"
  /\ Len(inStrokes) = 3
  /\ ~shouldGroupStrokes(inStrokes[1], inStrokes[2])
  /\ shouldGroupStrokes(inStrokes[1], inStrokes[3])
  /\ shouldGroupStrokes(inStrokes[2], inStrokes[3])
  /\ Len(outCharacters.characters) = 1

----------------------------------------------------------------------------
(* The per-character canvas when timers fire and promises settle *)

\* Some in-flight Promise.all settles.
SomeRecognitionCompletes ==
  \E k \in 1..Len(inflight) :
    \E outcome \in [1..Len(inflight[k]) -> RecognitionOutcomes] :
      RecognitionCompletes(k, outcome)

\* A pending setTimeout callback runs, a pending promise settles, and the
\* model initialization settles; the user draws and clears or does not.
SpecCharFair ==
  /\ InitChar
  /\ [][NextChar]_vars
  /\ WF_vars(RecognitionTimerFires)
  /\ WF_vars(SomeRecognitionCompletes)
  /\ WF_vars(ModelSettles)

\* C35: the processing flag of the per-character canvas is transient: after
\* every firing of the debounce timer that sets isProcessing to true,
\* isProcessing eventually returns to false, also when the timer fires and
\* no character needs recognition.
C35_ProcessingFlagIsTransient == isProcessing ~> ~isProcessing


SomeUnrecognized == \E i \in 1..Len(characters) : characters[i].recognized = NULL

AllRecognized == \A i \in 1..Len(characters) : characters[i].recognized # NULL

\* The expressions hold exactly the characters of the canvas.
ExpressionsRebuilt ==
  IdsOf(characters)
    = UNION {IdsOf(expressions[k].characters) : k \in 1..Len(expressions)}

\* C36: every character is eventually recognized: once the user stops
\* drawing and model initialization has settled, every character with
\* recognized = null gets a label and the expressions are rebuilt, also when
\* the debounce timer fired while the model was still loading.
C36_EveryCharacterRecognized ==
  SomeUnrecognized ~> (AllRecognized /\ ExpressionsRebuilt)

----------------------------------------------------------------------------
(* Claims about the expression-completion callback of the segmenting canvas *)

\* The step runs the callback of the expression timer, and the callback
\* calls onExpressionComplete: there is an expression of completed characters.
ExpressionCallbackInvoked ==
  /\ \E timer \in timeouts :
       /\ timer.kind = "expression"
       /\ timeouts' = timeouts \ {timer}
  /\ clears' = clears
  /\ grouper' = grouper
  /\ Len(grouper.characters) > 0
  /\ Len(getExpression(grouper.characters)) > 0

\* The ids of the strokes of the completed characters.
CompletedStrokeIds ==
  UNION {{grouper.characters[i].strokes[k].id :
            k \in 1..Len(grouper.characters[i].strokes)} :
         i \in 1..Len(grouper.characters)}

\* The ids of the strokes of the candidate in progress.
CandidateStrokeIds ==
  {grouper.currentCharacter.strokes[k].id :
     k \in 1..Len(grouper.currentCharacter.strokes)}

\* C37: onExpressionComplete is invoked only when no character is in
\* progress: whenever it fires the grouper has no current candidate and the
\* expression passed includes every stroke drawn so far, also when a
\* character is still being drawn 1.5 s after the previous one completed.
C37_ExpressionCompleteWhenIdle ==
  [][ExpressionCallbackInvoked =>
       /\ grouper.currentCharacter = NoCharacter
       /\ CandidateStrokeIds \subseteq CompletedStrokeIds]_vars

----------------------------------------------------------------------------
(* Loading the model (initializeModel of lib/recognizer.ts) *)

\* isModelReady()
isModelReady(rec) == rec.model \/ rec.modelLoadFailed

StartsLoad_IgnoresPromise(rec) ==
  ~rec.model /\ ~rec.modelLoadFailed

\* initializeModel gets past its three early returns and starts the load.
StartsLoad(rec) ==
  ~rec.model /\ ~rec.modelLoadFailed /\ rec.modelLoadPromise = "null"

\* What the call returns at once, or "awaiting" when it returns the promise
\* of the load (the one pending, or the one it starts).
initializeModel(rec) ==
  IF rec.model THEN "true"
  ELSE IF rec.modelLoadFailed THEN "false"
  ELSE "awaiting"

LoadFrame ==
  /\ UNCHANGED outRecognition
  /\ UNCHANGED <<inputVars, charVars, groupVars, solverVars, clusterVars, layoutVars,
                 boxVars, grouperVars, timeouts>>

\* Caller c calls initializeModel.
CallInitializeModel(c) ==
  /\ modelLoad.made < MaxCalls
  /\ modelLoad.calls[c] # "awaiting"
  /\ modelLoad' =
       [modelLoad EXCEPT
          !.calls[c] = initializeModel(recognizer),
          !.made = @ + 1,
          !.attempts = IF StartsLoad(recognizer) THEN @ + 1 ELSE @]
  /\ recognizer' =
       IF StartsLoad(recognizer)
       THEN [recognizer EXCEPT !.isModelLoading = TRUE, !.modelLoadPromise = "pending"]
       ELSE recognizer
  /\ LoadFrame

\* The load settles: tf.loadLayersModel gives a model, or something in the
\* try block throws.  The callers awaiting the promise get its value.
LoadSettles(loaded) ==
  /\ recognizer.modelLoadPromise = "pending"
  /\ recognizer' =
       [recognizer EXCEPT
          !.model = loaded,
          !.modelLoadFailed = ~loaded,
          !.isModelLoading = FALSE,
          !.modelLoadPromise = "resolved"]
  /\ modelLoad' =
       [modelLoad EXCEPT
          !.calls = [c \in Callers |->
                       IF modelLoad.calls[c] = "awaiting"
                       THEN IF loaded THEN "true" ELSE "false"
                       ELSE modelLoad.calls[c]]]
  /\ LoadFrame

InitModelLoad ==
  /\ now = 0
  /\ idCounter = 0
  /\ drawn = 0
  /\ clears = 0
  /\ strokes = <<>>
  /\ characters = <<>>
  /\ expressions = <<>>
  /\ isProcessing = FALSE
  /\ recognitionTimer = NoTimer
  /\ inflight = <<>>
  /\ modelReady = FALSE
  /\ groups = <<>>
  /\ debounceTimer = <<>>
  /\ pendingReady = <<>>
  /\ globalScope = <<>>
  /\ evalLog = <<>>
  /\ inStrokes = <<>>
  /\ outCharacters = <<>>
  /\ pairTested = <<>>
  /\ GrouperUnused
  /\ LayoutUnused
  /\ RecognizerUnused
  /\ BoxesUnused
  /\ LoadUnused

NextModelLoad ==
  \/ \E c \in Callers : CallInitializeModel(c)
  \/ \E loaded \in BOOLEAN : LoadSettles(loaded)

SpecModelLoad == InitModelLoad /\ [][NextModelLoad]_vars

----------------------------------------------------------------------------
(* Claims about loading the model *)

\* The values the callers got so far.
Outcomes == {modelLoad.calls[c] : c \in Callers} \ {"idle", "awaiting"}

\* C38: the model is loaded at most once: over any number of overlapping or
\* repeated initializeModel calls the load is attempted a single time and
\* all callers get the same outcome; after a failed load every call returns
\* false without a retry; and isModelReady() is true exactly when the load
\* has settled, with a model or with a failure.
C38_ModelLoadedOnce ==
  /\ modelLoad.attempts <= 1
  /\ Cardinality(Outcomes) <= 1
  /\ recognizer.modelLoadFailed => Outcomes \subseteq {"false"}
  /\ recognizer.model => Outcomes \subseteq {"true"}
  /\ isModelReady(recognizer) <=> recognizer.modelLoadPromise = "resolved"
  /\ (\E c \in Callers : modelLoad.calls[c] = "awaiting")
       => recognizer.modelLoadPromise = "pending"

\* The load failed, and the callers have called again since: every one of
\* them has false from a call made after the callers that awaited the load.
C38_Witness ==
  /\ recognizer.modelLoadFailed
  /\ modelLoad.attempts = 1
  /\ modelLoad.made > MaxCallers
  /\ \A c \in Callers : modelLoad.calls[c] = "false"

----------------------------------------------------------------------------
(* Claims about the conservation of strokes in the segmenter *)

\* The completed characters followed by the candidate in progress, if any.
HeldCharacters ==
  IF grouper.currentCharacter.strokes = <<>> THEN grouper.characters
  ELSE Append(grouper.characters, grouper.currentCharacter)

\* The places (character, stroke) where the stroke with this id is held.
PlacesHolding(id) ==
  {<<i, k>> \in (1..Len(HeldCharacters)) \X (1..MaxStrokes) :
     /\ k <= Len(HeldCharacters[i].strokes)
     /\ HeldCharacters[i].strokes[k].id = id}

\* The ids of the characters the completion callback was called with, in
\* the order of the calls.
CallbackIds == [i \in 1..Len(canvasV2.characters) |-> canvasV2.characters[i].id]

CompletedIds == [i \in 1..Len(grouper.characters) |-> grouper.characters[i].id]

\* C39: after any sequence of addStroke, timer firing and forceComplete
\* without a clear, every stroke added is a member of exactly one character
\* among the completed ones and the candidate, the completion callback was
\* invoked exactly once for each completed character, in completion order,
\* and never for the candidate, and all character ids are distinct.
C39_StrokesConserved ==
  clears = 0 =>
    /\ \A id \in 1..idCounter : Cardinality(PlacesHolding(id)) = 1
    /\ CallbackIds = CompletedIds
    /\ \A i, j \in 1..Len(HeldCharacters) :
         i # j => HeldCharacters[i].id # HeldCharacters[j].id

\* Three strokes were added: two make a completed character, the callback
\* was called for it, and the third is the candidate.
C39_Witness ==
  /\ clears = 0
  /\ idCounter = 3
  /\ Len(grouper.characters) = 1
  /\ Len(grouper.characters[1].strokes) = 2
  /\ Len(grouper.currentCharacter.strokes) = 1
  /\ Len(canvasV2.characters) = 1

----------------------------------------------------------------------------
(* Claims about the frame of the incremental clustering *)

\* char holds a stroke that is grouped with newStroke.
Touches(char, newStroke) ==
  \E k \in 1..Len(char.strokes) : shouldGroupStrokes(char.strokes[k], newStroke)

\* How many times the characters hold the stroke s.
Occurrences(chars, s) ==
  Cardinality({<<i, k>> \in (1..Len(chars)) \X (1..MaxStrokes) :
                 k <= Len(chars[i].strokes) /\ chars[i].strokes[k] = s})

\* The pointer-up added a stroke: the last of strokes'.
StrokeAdded == Len(strokes') = Len(strokes) + 1

\* C40: addStrokeToCharacters changes only what the new stroke touches.  A
\* character with no stroke grouped with the new stroke is returned unchanged
\* (id, strokes, recognized label, confidence), a character that gains the
\* stroke has its recognition reset to null and 0, and the strokes of the
\* returned characters are the previous ones plus the new stroke, once each.
C40_AddStrokeFrame ==
  [][StrokeAdded =>
       LET newStroke == strokes'[Len(strokes')]
       IN /\ \A i \in 1..Len(characters) :
               ~Touches(characters[i], newStroke) =>
                 /\ Cardinality({j \in 1..Len(characters') :
                                   characters'[j].id = characters[i].id}) = 1
                 /\ \E j \in 1..Len(characters') : characters'[j] = characters[i]
          /\ \A j \in 1..Len(characters') :
               Occurrences(<<characters'[j]>>, newStroke) > 0 =>
                 /\ characters'[j].recognized = NULL
                 /\ characters'[j].confidence = 0
          /\ \A i \in 1..Len(strokes') :
               Occurrences(characters', strokes'[i]) =
                 Occurrences(characters, strokes'[i])
                 + (IF i = Len(strokes') THEN 1 ELSE 0)
          /\ \A j \in 1..Len(characters') :
               \A k \in 1..Len(characters'[j].strokes) :
                 \E i \in 1..Len(strokes') : strokes'[i] = characters'[j].strokes[k]]_vars

\* Two recognized characters, then a third stroke that joined the first one
\* only: the first was reset, the second kept its label.
C40_Witness ==
  /\ Len(characters) = 2
  /\ inflight = <<>>
  /\ \E a, b \in 1..2 :
       /\ Len(characters[a].strokes) = 2
       /\ characters[a].recognized = NULL
       /\ Len(characters[b].strokes) = 1
       /\ characters[a].strokes[1].id < characters[b].strokes[1].id
       /\ characters[b].strokes[1].id < characters[a].strokes[2].id
       /\ characters[b].recognized # NULL

====
